---- MODULE Spec2Model ----
(***************************************************************************)
(* The role/permission authorization cache (package authorization):       *)
(* Authorizer with its map cache, RWMutex, TTL and caching flag, the       *)
(* decision API, the mutation API, bulk invalidation and the background    *)
(* sweep, over a Permission Store holding user_roles / role_permissions.   *)
(***************************************************************************)
EXTENDS Integers, Sequences, FiniteSets, TLC

\* ------------------------------------------------------------------ bounds
MaxCalls == 3          \* API calls started in one behaviour
MaxTime == 2           \* the clock runs 0..MaxTime

\* ------------------------------------------------------------- the callers
Threads == {"t1", "t2"}
NoThread == "none"
Sweeper == "sweeper"

\* ------------------------------------------------------------ user IDs
\* A user ID string is a sequence of characters.  The UUID of the model has
\* as many hex digits as NilUUID; the parser decodes hex digits of either case.
NilUUID == <<"0", "0">>
HexValue == [c \in {"0", "1", "2", "a", "b", "A", "B"} |->
               CASE c = "A" -> "a" [] c = "B" -> "b" [] OTHER -> c]

UserIDs == {<<"a", "1">>, <<"A", "1">>, <<"z", "z">>}

\* mutant: no validation, every string is decoded
uuidParseAcceptsAll(s) ==
    [ok |-> TRUE,
     uid |-> [i \in 1..Len(s) |-> IF s[i] \in DOMAIN HexValue THEN HexValue[s[i]] ELSE s[i]]]

\* uuid.Parse: the decoded UUID value, or an error.
uuidParse(s) ==
    IF Len(s) = Len(NilUUID) /\ \A i \in 1..Len(s) : s[i] \in DOMAIN HexValue
    THEN [ok |-> TRUE, uid |-> [i \in 1..Len(s) |-> HexValue[s[i]]]]
    ELSE [ok |-> FALSE, uid |-> NilUUID]

ValidUserIDs == {s \in UserIDs : uuidParse(s).ok}
UUIDs == {uuidParse(s).uid : s \in ValidUserIDs}

\* ------------------------------------------------------- store contents
\* table roles: the migration's "user" and "moderator", and "auditor", a role an
\* administrator has added to the tables with the one permission user.delete
Roles == {"user", "moderator", "auditor"}
RoleNames == {"user", "moderator"}      \* role names the callers pass
CustomRoleNames == {"user", "auditor"}  \* the same, where the added role is in use

\* table permissions, in ORDER BY p.name order
PermissionsTable ==
    << [Name |-> "user.delete", Resource |-> "user", Action |-> "delete"],
       [Name |-> "user.read", Resource |-> "user", Action |-> "read"],
       [Name |-> "user.update", Resource |-> "user", Action |-> "update"] >>

\* table role_permissions
RolePermissions ==
    [r \in Roles |-> IF r = "user" THEN {"user.read", "user.update"}
                     ELSE IF r = "moderator" THEN {"user.read", "user.update", "user.delete"}
                     ELSE {"user.delete"}]

PermissionNames == {"user.read", "user.delete"}   \* names callers ask about

\* the permissionNames lists of the composite checks
NameLists ==
    {<<>>, <<"user.read">>, <<"user.delete">>,
     <<"user.read", "user.read">>, <<"user.read", "user.delete">>,
     <<"user.delete", "user.read">>, <<"user.delete", "user.delete">>}

TTLValues == {0, 1}
DefaultCacheTTL == 1

\* ------------------------------------------------------------ errors
NoError == "nil"
ErrInvalidUserID == "invalid user ID"
ErrLoadPermissions == "failed to load user permissions"
ErrCheckRole == "failed to check role"
ErrGetUserRoles == "failed to get user roles"
ErrAssignRole == "failed to assign role"
ErrRemoveRole == "failed to remove role"

VARIABLES
    userRoles,      \* store: table user_roles, UUID -> set of role names
    cache,          \* a.cache: map from user ID string to *UserPermissions
    cacheMutex,     \* a.cacheMutex: [readers, writer]
    cacheTTL,       \* a.cacheTTL
    enableCaching,  \* a.enableCaching
    now,            \* the wall clock
    th,             \* per caller: position and locals of the call in progress
    calls,          \* number of API calls started
    mutated,        \* UUIDs with a successful role mutation not yet followed by a HasPermission call
    sweep           \* the goroutine of StartCacheCleanup: [pc, ctxDone, now, left],
                    \* and swept: the entries its passes deleted that no fill,
                    \* invalidation or bulk invalidation has since overridden;
                    \* before: the map as the pass in progress found it

vars == <<userRoles, cache, cacheMutex, cacheTTL, enableCaching, now, th, calls, mutated, sweep>>

\* ------------------------------------------------------ pure functions
\* rows of user_roles for a user; a user with no rows has no role
rolesOf(ur, uid) == IF uid \in DOMAIN ur THEN ur[uid] ELSE {}

\* The SELECT DISTINCT ... ORDER BY p.name of loadUserPermissions.
GrantedNames(roles) == UNION {RolePermissions[r] : r \in roles}

loadUserPermissions(roles) ==
    SelectSeq(PermissionsTable, LAMBDA p : p.Name \in GrantedNames(roles))

\* for _, p := range permissions { if p.Name == permissionName { return true } }
hasName(permissions, permissionName) ==
    \E i \in 1..Len(permissions) : permissions[i].Name = permissionName

\* mutant: an entry is served one time unit beyond its TTL
isExpiredLate(loadedAt, t, ttl) == t - loadedAt > ttl + 1

\* time.Since(userPerms.LoadedAt) > a.cacheTTL
isExpired(loadedAt, t, ttl) == t - loadedAt > ttl

\* mutant: the found flag is returned as the answer
checkCacheFoundIsAnswer(c, userID, permissionName, t, ttl) ==
    IF userID \notin DOMAIN c THEN <<FALSE, FALSE>>
    ELSE IF isExpired(c[userID].LoadedAt, t, ttl) THEN <<FALSE, FALSE>>
    ELSE <<TRUE, TRUE>>

\* checkCache: <<hasPermission, found>>
checkCache(c, userID, permissionName, t, ttl) ==
    IF userID \notin DOMAIN c THEN <<FALSE, FALSE>>
    ELSE IF isExpired(c[userID].LoadedAt, t, ttl) THEN <<FALSE, FALSE>>
    ELSE <<hasName(c[userID].Permissions, permissionName), TRUE>>

\* mutant: a load without rows is not cached
updateCacheSkipsEmpty(c, userID, permissions, t) ==
    IF permissions = <<>> THEN c
    ELSE [k \in DOMAIN c \cup {userID} |->
            IF k = userID THEN [Permissions |-> permissions, LoadedAt |-> t] ELSE c[k]]

\* mutant: a fill appends the loaded rows to the entry already there
updateCacheAppend(c, userID, permissions, t) ==
    [k \in DOMAIN c \cup {userID} |->
        IF k # userID THEN c[k]
        ELSE [Permissions |-> IF userID \in DOMAIN c THEN c[userID].Permissions \o permissions
                              ELSE permissions,
              LoadedAt |-> t]]

\* updateCache: a.cache[userID] = &UserPermissions{permissions, time.Now()}
updateCache(c, userID, permissions, t) ==
    [k \in DOMAIN c \cup {userID} |->
        IF k = userID THEN [Permissions |-> permissions, LoadedAt |-> t] ELSE c[k]]

\* invalidateCache: delete(a.cache, userID)
invalidateCache(c, userID) == [k \in DOMAIN c \ {userID} |-> c[k]]

EmptyCache == [k \in {} |-> 0]

\* mutant: the range stops one key short
clearCacheLeavesOne(c) ==
    [k \in (IF DOMAIN c = {} THEN {} ELSE {CHOOSE x \in DOMAIN c : TRUE}) |-> c[k]]

\* InvalidateAllCache: for k := range a.cache { delete(a.cache, k) }
clearCache(c) == [k \in {} |-> c[k]]

\* mutant: an assignment that is already there is taken away
insertUserRoleToggle(ur, uid, roleName) ==
    [ur EXCEPT ![uid] = IF roleName \in @ THEN @ \ {roleName} ELSE @ \cup ({roleName} \cap Roles)]

\* INSERT INTO user_roles ... SELECT $1, id FROM roles WHERE name = $2 ON CONFLICT DO NOTHING
insertUserRole(ur, uid, roleName) ==
    [ur EXCEPT ![uid] = @ \cup ({roleName} \cap Roles)]

\* DELETE FROM user_roles WHERE user_id = $1 AND role_id = (SELECT id FROM roles WHERE name = $2)
deleteUserRole(ur, uid, roleName) ==
    [ur EXCEPT ![uid] = @ \ {roleName}]

\* table roles, in ORDER BY r.name order
RolesTable == <<"auditor", "moderator", "user">>

\* SELECT r.name ... WHERE ur.user_id = $1 ORDER BY r.name
selectUserRoles(ur, uid) == SelectSeq(RolesTable, LAMBDA r : r \in rolesOf(ur, uid))

\* SELECT EXISTS(... WHERE ur.user_id = $1 AND r.name = $2)
existsUserRole(ur, uid, roleName) == roleName \in rolesOf(ur, uid)

\* mutant: the operands of the age are swapped, loadedAt.Sub(now)
cleanExpiredEntrySwapped(c, userID, t, ttl) ==
    IF c[userID].LoadedAt - t > ttl THEN [k \in DOMAIN c \ {userID} |-> c[k]] ELSE c

\* mutant: the sweep deletes an entry as soon as its age reaches the TTL
cleanExpiredEntryAtTTL(c, userID, t, ttl) ==
    IF t - c[userID].LoadedAt >= ttl THEN [k \in DOMAIN c \ {userID} |-> c[k]] ELSE c

\* cleanExpiredCache, loop body: if now.Sub(userPerms.LoadedAt) > a.cacheTTL { delete }
cleanExpiredEntry(c, userID, t, ttl) ==
    IF t - c[userID].LoadedAt > ttl THEN [k \in DOMAIN c \ {userID} |-> c[k]] ELSE c

\* --------------------------------------------------------- caller state
IdleThread ==
    [pc |-> "idle", op |-> "none", userID |-> <<>>, names |-> <<>>, idx |-> 0,
     roleName |-> "", permissions |-> <<>>, res |-> FALSE, err |-> NoError,
     roles |-> <<>>,
     \* observations of the call, for the properties
     storeCalls |-> 0, consulted |-> FALSE, wrote |-> FALSE, sawEnabled |-> FALSE,
     hit |-> FALSE, stale |-> FALSE, afterMut |-> FALSE, truth |-> FALSE,
     loadErr |-> FALSE, steady |-> TRUE, lost |-> FALSE,
     second |-> FALSE, overtaken |-> 0, allGranted |-> FALSE, readAt |-> 0]

uidOf(r) == uuidParse(r.userID).uid
nameOf(r) == r.names[r.idx]

Returned(r, res, err) == [r EXCEPT !.pc = "done", !.res = res, !.err = err]

\* mutant: the later names of a composite check go to the store, past the cache
EnterHasPermissionSkipsCache(r) ==
    IF ~uuidParse(r.userID).ok
    THEN Returned(r, FALSE, ErrInvalidUserID)
    ELSE [r EXCEPT !.pc = IF r.idx > 1 THEN "load" ELSE "flag1",
                   !.hit = FALSE, !.stale = FALSE, !.lost = FALSE,
                   !.second = FALSE, !.overtaken = 0,
                   !.afterMut = uuidParse(r.userID).uid \in mutated, !.truth = FALSE]

\* Entry of HasPermission: uuid.Parse, then the first read of a.enableCaching.
EnterHasPermission(r) ==
    IF ~uuidParse(r.userID).ok
    THEN Returned(r, FALSE, ErrInvalidUserID)
    ELSE [r EXCEPT !.pc = "flag1", !.hit = FALSE, !.stale = FALSE, !.lost = FALSE,
                   !.second = FALSE, !.overtaken = 0,
                   !.afterMut = uuidParse(r.userID).uid \in mutated, !.truth = FALSE]

\* mutant: HasAllPermissions answers true when HasPermission fails
AfterHasPermissionFailOpen(r, has, err) ==
    CASE r.op = "HasPermission" -> Returned(r, has, err)
      [] r.op = "HasAnyPermission" ->
            IF err # NoError THEN Returned(r, FALSE, err)
            ELSE IF has THEN Returned(r, TRUE, NoError)
            ELSE IF r.idx < Len(r.names) THEN EnterHasPermission([r EXCEPT !.idx = @ + 1])
            ELSE Returned(r, FALSE, NoError)
      [] r.op = "HasAllPermissions" ->
            IF err # NoError THEN Returned(r, TRUE, err)
            ELSE IF ~has THEN Returned(r, FALSE, NoError)
            ELSE IF r.idx < Len(r.names) THEN EnterHasPermission([r EXCEPT !.idx = @ + 1])
            ELSE Returned(r, TRUE, NoError)

\* mutant: HasAllPermissions carries the loop body of HasAnyPermission
AfterHasPermissionAllAsAny(r, has, err) ==
    CASE r.op = "HasPermission" -> Returned(r, has, err)
      [] OTHER ->
            IF err # NoError THEN Returned(r, FALSE, err)
            ELSE IF has THEN Returned(r, TRUE, NoError)
            ELSE IF r.idx < Len(r.names) THEN EnterHasPermission([r EXCEPT !.idx = @ + 1])
            ELSE Returned(r, FALSE, NoError)

\* mutant: the loops do not stop at the deciding element, they run to the end
AfterHasPermissionToTheEnd(r, has, err) ==
    CASE r.op = "HasPermission" -> Returned(r, has, err)
      [] OTHER ->
            IF err # NoError THEN Returned(r, FALSE, err)
            ELSE IF r.idx < Len(r.names)
            THEN EnterHasPermission([r EXCEPT !.idx = @ + 1,
                                              !.res = IF r.idx = 1 THEN has
                                                      ELSE IF r.op = "HasAnyPermission"
                                                      THEN @ \/ has ELSE @ /\ has])
            ELSE Returned(r, IF r.idx = 1 THEN has
                             ELSE IF r.op = "HasAnyPermission" THEN r.res \/ has
                             ELSE r.res /\ has, NoError)

\* What the caller of HasPermission does with (has, err): HasPermission itself
\* returns it; the loops of HasAnyPermission / HasAllPermissions go on or return.
AfterHasPermission(r, has, err) ==
    CASE r.op = "HasPermission" -> Returned(r, has, err)
      [] r.op = "HasAnyPermission" ->
            IF err # NoError THEN Returned(r, FALSE, err)
            ELSE IF has THEN Returned(r, TRUE, NoError)
            ELSE IF r.idx < Len(r.names) THEN EnterHasPermission([r EXCEPT !.idx = @ + 1])
            ELSE Returned(r, FALSE, NoError)
      [] r.op = "HasAllPermissions" ->
            IF err # NoError THEN Returned(r, FALSE, err)
            ELSE IF ~has THEN Returned(r, FALSE, NoError)
            ELSE IF r.idx < Len(r.names) THEN EnterHasPermission([r EXCEPT !.idx = @ + 1])
            ELSE Returned(r, TRUE, NoError)

\* A HasPermission call that starts for a user takes up the pending mutation mark.
Marked(r) == IF r.pc = "flag1" THEN mutated \ {uidOf(r)} ELSE mutated

\* Composite checks in progress whose environment (clock, configuration, store,
\* cache) is changed by somebody else lose the mark "steady".
InCompositeOp(r) == r.op \in {"HasAnyPermission", "HasAllPermissions"}

InComposite(r) ==
    /\ InCompositeOp(r)
    /\ r.pc \notin {"idle", "done", "off"}

Disturb(thr) ==
    [t \in Threads |-> IF InComposite(thr[t]) THEN [thr[t] EXCEPT !.steady = FALSE] ELSE thr[t]]

DisturbOthers(thr, t, r) == [Disturb(thr) EXCEPT ![t] = r]

\* Two checks of one key in flight together.  HoldsLoad: a check that has read
\* the store and has not yet written.  A load made while another check holds its
\* load is "second", and the holder is then overtaken (1); when the second load is
\* written first, with another set, the holder is overtaken for good (2).
HoldsLoad(r, userID) == r.userID = userID /\ r.pc \in {"flag2", "wlock", "wlocked"}

LoadsSecond(thr, t) == \E o \in Threads \ {t} : HoldsLoad(thr[o], thr[t].userID)

OvertakenByLoad(thr, t) ==
    [o \in Threads |->
        IF o # t /\ HoldsLoad(thr[o], thr[t].userID) /\ thr[o].overtaken = 0
        THEN [thr[o] EXCEPT !.overtaken = 1] ELSE thr[o]]

OvertakenByWrite(thr, t) ==
    [o \in Threads |->
        IF /\ o # t /\ HoldsLoad(thr[o], thr[t].userID) /\ thr[o].overtaken = 1
           /\ thr[t].second /\ thr[o].permissions # thr[t].permissions
        THEN [thr[o] EXCEPT !.overtaken = 2] ELSE thr[o]]

\* Whether the store grants, all at once, every name a check asks about; a check
\* keeps in "allGranted" whether that was so at some moment since it was called.
GrantsAll(ur, r) ==
    \A i \in 1..Len(r.names) : r.names[i] \in GrantedNames(rolesOf(ur, uidOf(r)))

SeenGranted(thr, ur) ==
    [t \in Threads |->
        IF InComposite(thr[t]) THEN [thr[t] EXCEPT !.allGranted = @ \/ GrantsAll(ur, thr[t])]
        ELSE thr[t]]

\* A call that has returned is handed back to its caller before anything else moves.
NoneReturning == \A t \in Threads : th[t].pc # "done"

CanCall(t) == th[t].pc = "idle" /\ calls < MaxCalls /\ NoneReturning

MutexFree == cacheMutex.writer = NoThread /\ cacheMutex.readers = {}

\* ------------------------------------------------------------------ Init
\* NewAuthorizer: empty map, TTL from the configuration, caching enabled.  The
\* store holds the migration's default assignment of role "user".  Under Spec
\* one goroutine (t1) calls the API, next to the sweep goroutine, the clock and
\* the configuration setters, which interleave with every step of its calls.
Init ==
    /\ userRoles = [u \in UUIDs |-> {"user"}]
    /\ cache = EmptyCache
    /\ cacheMutex = [readers |-> {}, writer |-> NoThread]
    /\ cacheTTL = DefaultCacheTTL
    /\ enableCaching = TRUE
    /\ now = 0
    /\ th = [t \in Threads |-> IF t = "t1" THEN IdleThread ELSE [IdleThread EXCEPT !.pc = "off"]]
    /\ calls = 0
    /\ mutated = {}
    /\ sweep = [pc |-> "off", ctxDone |-> FALSE, now |-> 0, left |-> {}, swept |-> EmptyCache,
                before |-> EmptyCache]

\* ------------------------------------------------------- decision API
\* mutant: the composite checks parse the user ID before their loop
StartCheckParsesFirst(t, op, userID, names) ==
    /\ CanCall(t)
    /\ calls' = calls + 1
    /\ LET rn == [IdleThread EXCEPT !.op = op, !.userID = userID, !.names = names, !.idx = 1]
           r0 == [rn EXCEPT !.allGranted = InCompositeOp(rn) /\ GrantsAll(userRoles, rn)]
           r1 == IF ~uuidParse(userID).ok
                 THEN Returned(r0, FALSE, ErrInvalidUserID)
                 ELSE IF names = <<>>
                 THEN Returned(r0, op = "HasAllPermissions", NoError)
                 ELSE EnterHasPermission(r0)
       IN /\ th' = [th EXCEPT ![t] = r1]
          /\ mutated' = Marked(r1)
    /\ UNCHANGED <<userRoles, cache, cacheMutex, cacheTTL, enableCaching, now, sweep>>

\* The call of a check: an empty list returns at once, else the first HasPermission.
StartCheck(t, op, userID, names) ==
    /\ CanCall(t)
    /\ calls' = calls + 1
    /\ LET rn == [IdleThread EXCEPT !.op = op, !.userID = userID, !.names = names, !.idx = 1]
           r0 == [rn EXCEPT !.allGranted = InCompositeOp(rn) /\ GrantsAll(userRoles, rn)]
           r1 == IF names = <<>>
                 THEN Returned(r0, op = "HasAllPermissions", NoError)
                 ELSE EnterHasPermission(r0)
       IN /\ th' = [th EXCEPT ![t] = r1]
          /\ mutated' = Marked(r1)
    /\ UNCHANGED <<userRoles, cache, cacheMutex, cacheTTL, enableCaching, now, sweep>>

HasPermission(t) ==
    \E userID \in UserIDs, n \in PermissionNames :
        StartCheck(t, "HasPermission", userID, <<n>>)

HasAnyPermission(t) ==
    \E userID \in UserIDs, names \in NameLists :
        StartCheck(t, "HasAnyPermission", userID, names)

HasAllPermissions(t) ==
    \E userID \in UserIDs, names \in NameLists :
        StartCheck(t, "HasAllPermissions", userID, names)

\* if a.enableCaching { ... checkCache ... }
ReadEnableCaching(t) ==
    /\ th[t].pc = "flag1"
    /\ NoneReturning
    /\ th' = [th EXCEPT ![t] = [@ EXCEPT !.pc = IF enableCaching THEN "rlock" ELSE "load",
                                          !.consulted = @ \/ enableCaching,
                                          !.sawEnabled = @ \/ enableCaching]]
    /\ UNCHANGED <<userRoles, cache, cacheMutex, cacheTTL, enableCaching, now, calls, mutated, sweep>>

\* checkCache: a.cacheMutex.RLock()
checkCacheRLock(t) ==
    /\ th[t].pc = "rlock"
    /\ NoneReturning
    /\ cacheMutex.writer = NoThread
    /\ cacheMutex' = [cacheMutex EXCEPT !.readers = @ \cup {t}]
    /\ th' = [th EXCEPT ![t].pc = "rlocked"]
    /\ UNCHANGED <<userRoles, cache, cacheTTL, enableCaching, now, calls, mutated, sweep>>

\* mutant: on a miss the read lock is not released
checkCacheLookupKeepsRLock(t) ==
    /\ th[t].pc = "rlocked"
    /\ NoneReturning
    /\ LET r == th[t]
           got == checkCache(cache, r.userID, nameOf(r), now, cacheTTL)
           r1 == [r EXCEPT !.stale = /\ r.userID \in DOMAIN cache
                                     /\ now > cache[r.userID].LoadedAt + cacheTTL]
           r2 == IF got[2]
                 THEN AfterHasPermission(
                        [r1 EXCEPT !.hit = TRUE,
                                   !.truth = nameOf(r) \in GrantedNames(rolesOf(userRoles, uidOf(r)))],
                        got[1], NoError)
                 ELSE [r1 EXCEPT !.pc = "load"]
       IN /\ th' = [th EXCEPT ![t] = r2]
          /\ mutated' = IF got[2] THEN Marked(r2) ELSE mutated
          /\ cacheMutex' = IF got[2] THEN [cacheMutex EXCEPT !.readers = @ \ {t}] ELSE cacheMutex
    /\ UNCHANGED <<userRoles, cache, cacheTTL, enableCaching, now, calls, sweep>>

\* checkCache: the lookup and the deferred RUnlock; on found, HasPermission returns.
checkCacheLookup(t) ==
    /\ th[t].pc = "rlocked"
    /\ NoneReturning
    /\ cacheMutex' = [cacheMutex EXCEPT !.readers = @ \ {t}]
    /\ LET r == th[t]
           got == checkCache(cache, r.userID, nameOf(r), now, cacheTTL)
           r1 == [r EXCEPT !.stale = /\ r.userID \in DOMAIN cache
                                     /\ now > cache[r.userID].LoadedAt + cacheTTL]
           r2 == IF got[2]
                 THEN AfterHasPermission(
                        [r1 EXCEPT !.hit = TRUE,
                                   !.truth = nameOf(r) \in GrantedNames(rolesOf(userRoles, uidOf(r)))],
                        got[1], NoError)
                 ELSE [r1 EXCEPT !.pc = "load"]
       IN /\ th' = [th EXCEPT ![t] = r2]
          /\ mutated' = IF got[2] THEN Marked(r2) ELSE mutated
    /\ UNCHANGED <<userRoles, cache, cacheTTL, enableCaching, now, calls, sweep>>

\* mutant: a failed load is taken for an empty permission set and cached
LoadPermissionsNegative(t) ==
    /\ th[t].pc = "load"
    /\ NoneReturning
    /\ \E ok \in BOOLEAN :
         LET r == [th[t] EXCEPT !.storeCalls = @ + 1, !.loadErr = ~ok]
             r1 == [r EXCEPT !.pc = "flag2",
                             !.permissions = IF ok THEN loadUserPermissions(rolesOf(userRoles, uidOf(r)))
                                             ELSE <<>>,
                             !.truth = nameOf(r) \in GrantedNames(rolesOf(userRoles, uidOf(r)))]
         IN /\ th' = [th EXCEPT ![t] = r1]
            /\ mutated' = mutated
    /\ UNCHANGED <<userRoles, cache, cacheMutex, cacheTTL, enableCaching, now, calls, sweep>>

\* mutant: single-flight, a check waits while another check of its key holds a load
LoadPermissionsSingleFlight(t) ==
    /\ th[t].pc = "load"
    /\ NoneReturning
    /\ ~LoadsSecond(th, t)
    /\ \E ok \in BOOLEAN :
         LET r == [th[t] EXCEPT !.storeCalls = @ + 1, !.loadErr = ~ok]
             r1 == IF ok
                   THEN [r EXCEPT !.pc = "flag2",
                                  !.permissions = loadUserPermissions(rolesOf(userRoles, uidOf(r))),
                                  !.truth = nameOf(r) \in GrantedNames(rolesOf(userRoles, uidOf(r))),
                                  !.second = LoadsSecond(th, t)]
                   ELSE AfterHasPermission(r, FALSE, ErrLoadPermissions)
         IN /\ th' = [(IF ok THEN OvertakenByLoad(th, t) ELSE th) EXCEPT ![t] = r1]
            /\ mutated' = IF ok THEN mutated ELSE Marked(r1)
    /\ UNCHANGED <<userRoles, cache, cacheMutex, cacheTTL, enableCaching, now, calls, sweep>>

\* mutant: a composite check loads once and answers its later names from that set
LoadPermissionsReusesFirst(t) ==
    /\ th[t].pc = "load"
    /\ NoneReturning
    /\ \E ok \in BOOLEAN :
         LET r == [th[t] EXCEPT !.storeCalls = @ + 1, !.loadErr = ~ok]
             r1 == IF ok
                   THEN [r EXCEPT !.pc = "flag2",
                                  !.permissions =
                                      IF r.idx > 1 /\ th[t].storeCalls >= 1 THEN @
                                      ELSE loadUserPermissions(rolesOf(userRoles, uidOf(r))),
                                  !.truth = nameOf(r) \in GrantedNames(rolesOf(userRoles, uidOf(r))),
                                  !.second = LoadsSecond(th, t)]
                   ELSE AfterHasPermission(r, FALSE, ErrLoadPermissions)
         IN /\ th' = [(IF ok THEN OvertakenByLoad(th, t) ELSE th) EXCEPT ![t] = r1]
            /\ mutated' = IF ok THEN mutated ELSE Marked(r1)
    /\ UNCHANGED <<userRoles, cache, cacheMutex, cacheTTL, enableCaching, now, calls, sweep>>

\* loadUserPermissions: the store query, which succeeds or fails (error, cancellation).
LoadPermissions(t) ==
    /\ th[t].pc = "load"
    /\ NoneReturning
    /\ \E ok \in BOOLEAN :
         LET r == [th[t] EXCEPT !.storeCalls = @ + 1, !.loadErr = ~ok]
             r1 == IF ok
                   THEN [r EXCEPT !.pc = "flag2",
                                  !.permissions = loadUserPermissions(rolesOf(userRoles, uidOf(r))),
                                  !.truth = nameOf(r) \in GrantedNames(rolesOf(userRoles, uidOf(r))),
                                  !.second = LoadsSecond(th, t),
                                  !.readAt = now]
                   ELSE AfterHasPermission(r, FALSE, ErrLoadPermissions)
         IN /\ th' = [(IF ok THEN OvertakenByLoad(th, t) ELSE th) EXCEPT ![t] = r1]
            /\ mutated' = IF ok THEN mutated ELSE Marked(r1)
    /\ UNCHANGED <<userRoles, cache, cacheMutex, cacheTTL, enableCaching, now, calls, sweep>>

\* mutant: the loaded set is cached whatever a.enableCaching says
ReadEnableCachingForUpdateAlways(t) ==
    /\ th[t].pc = "flag2"
    /\ NoneReturning
    /\ th' = [th EXCEPT ![t] = [@ EXCEPT !.sawEnabled = @ \/ enableCaching, !.pc = "wlock"]]
    /\ UNCHANGED <<userRoles, cache, cacheMutex, cacheTTL, enableCaching, now, calls, mutated, sweep>>

\* if a.enableCaching { a.updateCache(...) }; when not, the final loop and return.
ReadEnableCachingForUpdate(t) ==
    /\ th[t].pc = "flag2"
    /\ NoneReturning
    /\ LET r == [th[t] EXCEPT !.sawEnabled = @ \/ enableCaching]
           r1 == IF enableCaching
                 THEN [r EXCEPT !.pc = "wlock"]
                 ELSE AfterHasPermission(r, hasName(r.permissions, nameOf(r)), NoError)
       IN /\ th' = [th EXCEPT ![t] = r1]
          /\ mutated' = IF enableCaching THEN mutated ELSE Marked(r1)
    /\ UNCHANGED <<userRoles, cache, cacheMutex, cacheTTL, enableCaching, now, calls, sweep>>

\* mutant: the fill takes the lock in shared mode, RLock for Lock
updateCacheLockShared(t) ==
    /\ th[t].pc = "wlock"
    /\ NoneReturning
    /\ cacheMutex.writer = NoThread
    /\ cacheMutex' = [cacheMutex EXCEPT !.writer = t]
    /\ th' = [th EXCEPT ![t].pc = "wlocked"]
    /\ UNCHANGED <<userRoles, cache, cacheTTL, enableCaching, now, calls, mutated, sweep>>

\* updateCache: a.cacheMutex.Lock()
updateCacheLock(t) ==
    /\ th[t].pc = "wlock"
    /\ NoneReturning
    /\ MutexFree
    /\ cacheMutex' = [cacheMutex EXCEPT !.writer = t]
    /\ th' = [th EXCEPT ![t].pc = "wlocked"]
    /\ UNCHANGED <<userRoles, cache, cacheTTL, enableCaching, now, calls, mutated, sweep>>

\* mutant: a fill whose key was invalidated since its load is dropped
updateCacheWriteUnlessInvalidated(t) ==
    /\ th[t].pc = "wlocked"
    /\ NoneReturning
    /\ cacheMutex' = [cacheMutex EXCEPT !.writer = NoThread]
    /\ cache' = IF th[t].lost THEN cache
              ELSE updateCache(cache, th[t].userID, th[t].permissions, now)
    /\ LET r == [th[t] EXCEPT !.wrote = TRUE]
           r1 == AfterHasPermission(r, hasName(r.permissions, nameOf(r)), NoError)
       IN /\ th' = DisturbOthers(th, t, r1)
          /\ mutated' = Marked(r1)
    /\ sweep' = [sweep EXCEPT !.swept = invalidateCache(@, th[t].userID)]
    /\ UNCHANGED <<userRoles, cacheTTL, enableCaching, now, calls>>

\* mutant: the entry is stamped with the time of the store read
updateCacheWriteStampsRead(t) ==
    /\ th[t].pc = "wlocked"
    /\ NoneReturning
    /\ cacheMutex' = [cacheMutex EXCEPT !.writer = NoThread]
    /\ cache' = updateCache(cache, th[t].userID, th[t].permissions, th[t].readAt)
    /\ LET r == [th[t] EXCEPT !.wrote = TRUE]
           r1 == AfterHasPermission(r, hasName(r.permissions, nameOf(r)), NoError)
       IN /\ th' = DisturbOthers(OvertakenByWrite(th, t), t, r1)
          /\ mutated' = Marked(r1)
    /\ sweep' = [sweep EXCEPT !.swept = invalidateCache(@, th[t].userID)]
    /\ UNCHANGED <<userRoles, cacheTTL, enableCaching, now, calls>>

\* updateCache: the map write and the deferred Unlock; then the final loop and return.
updateCacheWrite(t) ==
    /\ th[t].pc = "wlocked"
    /\ NoneReturning
    /\ cacheMutex' = [cacheMutex EXCEPT !.writer = NoThread]
    /\ cache' = updateCache(cache, th[t].userID, th[t].permissions, now)
    /\ LET r == [th[t] EXCEPT !.wrote = TRUE]
           r1 == AfterHasPermission(r, hasName(r.permissions, nameOf(r)), NoError)
       IN /\ th' = DisturbOthers(OvertakenByWrite(th, t), t, r1)
          /\ mutated' = Marked(r1)
    /\ sweep' = [sweep EXCEPT !.swept = invalidateCache(@, th[t].userID)]
    /\ UNCHANGED <<userRoles, cacheTTL, enableCaching, now, calls>>

\* ------------------------------------------------------- role queries
StartRoleCall(t, op, userID, roleName, pc) ==
    /\ CanCall(t)
    /\ calls' = calls + 1
    /\ LET r0 == [IdleThread EXCEPT !.op = op, !.userID = userID, !.roleName = roleName]
       IN th' = [th EXCEPT ![t] = IF ~uuidParse(userID).ok
                                   THEN Returned(r0, FALSE, ErrInvalidUserID)
                                   ELSE [r0 EXCEPT !.pc = pc]]
    /\ UNCHANGED <<userRoles, cache, cacheMutex, cacheTTL, enableCaching, now, mutated, sweep>>

HasRole(t) ==
    \E userID \in UserIDs, roleName \in RoleNames :
        StartRoleCall(t, "HasRole", userID, roleName, "query")

GetUserRoles(t) ==
    \E userID \in UserIDs : StartRoleCall(t, "GetUserRoles", userID, "", "query")

\* mutant: the role query also loads the user's permissions into the cache
QueryRolesFillsCache(t) ==
    /\ th[t].pc = "query"
    /\ NoneReturning
    /\ \E ok \in BOOLEAN :
         LET r == [th[t] EXCEPT !.storeCalls = @ + 1]
         IN /\ th' = [th EXCEPT ![t] =
                 CASE ~ok /\ r.op = "HasRole" -> Returned(r, FALSE, ErrCheckRole)
                   [] ~ok /\ r.op = "GetUserRoles" -> Returned(r, FALSE, ErrGetUserRoles)
                   [] ok /\ r.op = "HasRole" ->
                         Returned(r, existsUserRole(userRoles, uidOf(r), r.roleName), NoError)
                   [] ok /\ r.op = "GetUserRoles" ->
                         Returned([r EXCEPT !.roles = selectUserRoles(userRoles, uidOf(r))],
                                  FALSE, NoError)]
            /\ cache' = IF ok
                        THEN updateCache(cache, r.userID,
                                         loadUserPermissions(rolesOf(userRoles, uidOf(r))), now)
                        ELSE cache
    /\ UNCHANGED <<userRoles, cacheMutex, cacheTTL, enableCaching, now, calls, mutated, sweep>>

\* a.db.GetContext / a.db.SelectContext of HasRole / GetUserRoles
QueryRoles(t) ==
    /\ th[t].pc = "query"
    /\ NoneReturning
    /\ \E ok \in BOOLEAN :
         LET r == [th[t] EXCEPT !.storeCalls = @ + 1]
         IN th' = [th EXCEPT ![t] =
              CASE ~ok /\ r.op = "HasRole" -> Returned(r, FALSE, ErrCheckRole)
                [] ~ok /\ r.op = "GetUserRoles" -> Returned(r, FALSE, ErrGetUserRoles)
                [] ok /\ r.op = "HasRole" ->
                      Returned(r, existsUserRole(userRoles, uidOf(r), r.roleName), NoError)
                [] ok /\ r.op = "GetUserRoles" ->
                      Returned([r EXCEPT !.roles = selectUserRoles(userRoles, uidOf(r))],
                               FALSE, NoError)]
    /\ UNCHANGED <<userRoles, cache, cacheMutex, cacheTTL, enableCaching, now, calls, mutated, sweep>>

\* ------------------------------------------------------- mutation API
AssignRole(t) ==
    \E userID \in UserIDs, roleName \in RoleNames :
        StartRoleCall(t, "AssignRole", userID, roleName, "exec")

RemoveRole(t) ==
    \E userID \in UserIDs, roleName \in RoleNames :
        StartRoleCall(t, "RemoveRole", userID, roleName, "exec")

\* mutant: the invalidation is made whether the store write succeeded or not
ExecRoleMutationInvalidatesAnyway(t) ==
    /\ th[t].pc = "exec"
    /\ NoneReturning
    /\ \E ok \in BOOLEAN :
         LET r == [th[t] EXCEPT !.storeCalls = @ + 1]
         IN IF ok
            THEN /\ userRoles' = IF r.op = "AssignRole"
                                 THEN insertUserRole(userRoles, uidOf(r), r.roleName)
                                 ELSE deleteUserRole(userRoles, uidOf(r), r.roleName)
                 /\ th' = DisturbOthers(th, t, [r EXCEPT !.pc = "invlock"])
                 /\ UNCHANGED cache
            ELSE /\ UNCHANGED userRoles
                 /\ cache' = invalidateCache(cache, r.userID)
                 /\ th' = [th EXCEPT ![t] =
                        Returned(r, FALSE, IF r.op = "AssignRole" THEN ErrAssignRole
                                           ELSE ErrRemoveRole)]
    /\ UNCHANGED <<cacheMutex, cacheTTL, enableCaching, now, calls, mutated, sweep>>

\* a.db.ExecContext of AssignRole / RemoveRole: commits, or fails without effect.
ExecRoleMutation(t) ==
    /\ th[t].pc = "exec"
    /\ NoneReturning
    /\ \E ok \in BOOLEAN :
         LET r == [th[t] EXCEPT !.storeCalls = @ + 1]
             ur == IF r.op = "AssignRole"
                   THEN insertUserRole(userRoles, uidOf(r), r.roleName)
                   ELSE deleteUserRole(userRoles, uidOf(r), r.roleName)
         IN IF ok
            THEN /\ userRoles' = ur
                 /\ th' = DisturbOthers(SeenGranted(th, ur), t, [r EXCEPT !.pc = "invlock"])
            ELSE /\ UNCHANGED userRoles
                 /\ th' = [th EXCEPT ![t] =
                        Returned(r, FALSE, IF r.op = "AssignRole" THEN ErrAssignRole
                                           ELSE ErrRemoveRole)]
    /\ UNCHANGED <<cache, cacheMutex, cacheTTL, enableCaching, now, calls, mutated, sweep>>

\* invalidateCache: a.cacheMutex.Lock()
invalidateCacheLock(t) ==
    /\ th[t].pc = "invlock"
    /\ NoneReturning
    /\ MutexFree
    /\ cacheMutex' = [cacheMutex EXCEPT !.writer = t]
    /\ th' = [th EXCEPT ![t].pc = "invlocked"]
    /\ UNCHANGED <<userRoles, cache, cacheTTL, enableCaching, now, calls, mutated, sweep>>

\* mutant: write-through, the mutation puts the user's new set in place of the entry
invalidateCacheDeleteWritesThrough(t) ==
    /\ th[t].pc = "invlocked"
    /\ NoneReturning
    /\ cacheMutex' = [cacheMutex EXCEPT !.writer = NoThread]
    /\ cache' = updateCache(cache, th[t].userID,
                            loadUserPermissions(rolesOf(userRoles, uidOf(th[t]))), now)
    /\ th' = DisturbOthers(th, t, Returned(th[t], FALSE, NoError))
    /\ mutated' = mutated \cup {uidOf(th[t])}
    /\ sweep' = [sweep EXCEPT !.swept = invalidateCache(@, th[t].userID)]
    /\ UNCHANGED <<userRoles, cacheTTL, enableCaching, now, calls>>

\* invalidateCache: the delete and the deferred Unlock; AssignRole / RemoveRole return nil.
invalidateCacheDelete(t) ==
    /\ th[t].pc = "invlocked"
    /\ NoneReturning
    /\ cacheMutex' = [cacheMutex EXCEPT !.writer = NoThread]
    /\ cache' = invalidateCache(cache, th[t].userID)
    /\ th' = [o \in Threads |->
                 IF o = t THEN Returned(th[t], FALSE, NoError)
                 ELSE LET d == Disturb(th)[o]
                      IN \* a check that holds a loaded set for this key has lost
                         \* the invalidation: observation "lost"
                         IF d.userID = th[t].userID /\ d.pc \in {"flag2", "wlock"}
                         THEN [d EXCEPT !.lost = TRUE] ELSE d]
    /\ mutated' = mutated \cup {uidOf(th[t])}
    /\ sweep' = [sweep EXCEPT !.swept = invalidateCache(@, th[t].userID)]
    /\ UNCHANGED <<userRoles, cacheTTL, enableCaching, now, calls>>

\* ------------------------------------------------------ bulk invalidation
InvalidateAllCache(t) ==
    /\ CanCall(t)
    /\ calls' = calls + 1
    /\ th' = [th EXCEPT ![t] = [IdleThread EXCEPT !.op = "InvalidateAllCache", !.pc = "alllock"]]
    /\ UNCHANGED <<userRoles, cache, cacheMutex, cacheTTL, enableCaching, now, mutated, sweep>>

InvalidateAllCacheLock(t) ==
    /\ th[t].pc = "alllock"
    /\ NoneReturning
    /\ MutexFree
    /\ cacheMutex' = [cacheMutex EXCEPT !.writer = t]
    /\ th' = [th EXCEPT ![t].pc = "alllocked"]
    /\ UNCHANGED <<userRoles, cache, cacheTTL, enableCaching, now, calls, mutated, sweep>>

InvalidateAllCacheClear(t) ==
    /\ th[t].pc = "alllocked"
    /\ NoneReturning
    /\ cacheMutex' = [cacheMutex EXCEPT !.writer = NoThread]
    /\ cache' = clearCache(cache)
    /\ th' = DisturbOthers(th, t, Returned(th[t], FALSE, NoError))
    /\ sweep' = [sweep EXCEPT !.swept = EmptyCache]
    /\ UNCHANGED <<userRoles, cacheTTL, enableCaching, now, calls, mutated>>

\* ------------------------------------------------------- configuration
\* mutant: the setter drops the entries that have expired under the old TTL
SetCacheTTLPurges ==
    /\ calls < MaxCalls
    /\ NoneReturning
    /\ calls' = calls + 1
    /\ \E ttl \in TTLValues \ {cacheTTL} : cacheTTL' = ttl
    /\ cache' = [k \in {x \in DOMAIN cache : now - cache[x].LoadedAt <= cacheTTL} |-> cache[k]]
    /\ th' = Disturb(th)
    /\ UNCHANGED <<userRoles, cacheMutex, enableCaching, now, mutated, sweep>>

\* mutant: the setter stamps the entries anew
SetCacheTTLRestamps ==
    /\ calls < MaxCalls
    /\ NoneReturning
    /\ calls' = calls + 1
    /\ \E ttl \in TTLValues \ {cacheTTL} : cacheTTL' = ttl
    /\ cache' = [k \in DOMAIN cache |-> [cache[k] EXCEPT !.LoadedAt = now]]
    /\ th' = Disturb(th)
    /\ UNCHANGED <<userRoles, cacheMutex, enableCaching, now, mutated, sweep>>

\* The setters write the field directly, with no lock taken.
SetCacheTTL ==
    /\ calls < MaxCalls
    /\ NoneReturning
    /\ calls' = calls + 1
    /\ \E ttl \in TTLValues \ {cacheTTL} : cacheTTL' = ttl
    /\ th' = Disturb(th)
    /\ UNCHANGED <<userRoles, cache, cacheMutex, enableCaching, now, mutated, sweep>>

DisableCache ==
    /\ calls < MaxCalls
    /\ NoneReturning
    /\ enableCaching
    /\ calls' = calls + 1
    /\ enableCaching' = FALSE
    /\ th' = Disturb(th)
    /\ UNCHANGED <<userRoles, cache, cacheMutex, cacheTTL, now, mutated, sweep>>

EnableCache ==
    /\ calls < MaxCalls
    /\ NoneReturning
    /\ ~enableCaching
    /\ calls' = calls + 1
    /\ enableCaching' = TRUE
    /\ th' = Disturb(th)
    /\ UNCHANGED <<userRoles, cache, cacheMutex, cacheTTL, now, mutated, sweep>>

\* ---------------------------------------------------------------- time
\* The caller takes the result; the goroutine is free for its next call.
Return(t) ==
    /\ th[t].pc = "done"
    /\ th' = [th EXCEPT ![t] = IdleThread]
    /\ UNCHANGED <<userRoles, cache, cacheMutex, cacheTTL, enableCaching, now, calls, mutated, sweep>>

Tick ==
    /\ now < MaxTime
    /\ NoneReturning
    /\ now' = now + 1
    /\ th' = Disturb(th)
    /\ UNCHANGED <<userRoles, cache, cacheMutex, cacheTTL, enableCaching, calls, mutated, sweep>>

\* ------------------------------------------------------ background sweep
\* StartCacheCleanup: the ticker is created and the goroutine started.
StartCacheCleanup ==
    /\ sweep.pc = "off"
    /\ calls < MaxCalls
    /\ NoneReturning
    /\ calls' = calls + 1
    /\ sweep' = [sweep EXCEPT !.pc = "select"]
    /\ UNCHANGED <<userRoles, cache, cacheMutex, cacheTTL, enableCaching, now, th, mutated>>

\* The context passed to StartCacheCleanup is cancelled.
CancelContext ==
    /\ sweep.pc # "off"
    /\ ~sweep.ctxDone
    /\ NoneReturning
    /\ sweep' = [sweep EXCEPT !.ctxDone = TRUE]
    /\ UNCHANGED <<userRoles, cache, cacheMutex, cacheTTL, enableCaching, now, th, calls, mutated>>

\* mutant: on ctx.Done() the goroutine leaves the select but not the loop, and
\* goes on to a pass
SweepStopsLeavesSelectOnly ==
    /\ sweep.pc = "select"
    /\ sweep.ctxDone
    /\ NoneReturning
    /\ sweep' = [sweep EXCEPT !.pc = "lock"]
    /\ UNCHANGED <<userRoles, cache, cacheMutex, cacheTTL, enableCaching, now, th, calls, mutated>>

\* select: case <-ctx.Done(): return
SweepStops ==
    /\ sweep.pc = "select"
    /\ sweep.ctxDone
    /\ NoneReturning
    /\ sweep' = [sweep EXCEPT !.pc = "stopped"]
    /\ UNCHANGED <<userRoles, cache, cacheMutex, cacheTTL, enableCaching, now, th, calls, mutated>>

\* select: case <-ticker.C: a.cleanExpiredCache() is called.  When both channels
\* are ready the select picks either.
SweepTicks ==
    /\ sweep.pc = "select"
    /\ NoneReturning
    /\ sweep' = [sweep EXCEPT !.pc = "lock"]
    /\ UNCHANGED <<userRoles, cache, cacheMutex, cacheTTL, enableCaching, now, th, calls, mutated>>

\* cleanExpiredCache: a.cacheMutex.Lock(); now := time.Now(); the range begins.
cleanExpiredCacheLock ==
    /\ sweep.pc = "lock"
    /\ NoneReturning
    /\ MutexFree
    /\ cacheMutex' = [cacheMutex EXCEPT !.writer = Sweeper]
    /\ sweep' = [sweep EXCEPT !.pc = "locked", !.now = now, !.left = DOMAIN cache,
                              !.before = cache]
    /\ UNCHANGED <<userRoles, cache, cacheTTL, enableCaching, now, th, calls, mutated>>

\* cleanExpiredCache: one iteration of the range over a.cache, in map order.
cleanExpiredCacheVisit ==
    /\ sweep.pc = "locked"
    /\ NoneReturning
    /\ \E userID \in sweep.left :
         /\ cache' = cleanExpiredEntry(cache, userID, sweep.now, cacheTTL)
         /\ sweep' = [sweep EXCEPT !.left = @ \ {userID},
                                   !.swept = IF userID \in DOMAIN cache'
                                             THEN @
                                             ELSE [k \in DOMAIN @ \cup {userID} |->
                                                     IF k = userID THEN cache[userID] ELSE @[k]]]
    /\ UNCHANGED <<userRoles, cacheMutex, cacheTTL, enableCaching, now, th, calls, mutated>>

\* mutant: the pass returns without the Unlock
cleanExpiredCacheUnlockKeepsLock ==
    /\ sweep.pc = "locked"
    /\ NoneReturning
    /\ sweep.left = {}
    /\ cacheMutex' = cacheMutex
    /\ sweep' = [sweep EXCEPT !.pc = "select", !.now = 0, !.before = EmptyCache]
    /\ UNCHANGED <<userRoles, cache, cacheTTL, enableCaching, now, th, calls, mutated>>

\* cleanExpiredCache: the range is over; the deferred Unlock.
cleanExpiredCacheUnlock ==
    /\ sweep.pc = "locked"
    /\ NoneReturning
    /\ sweep.left = {}
    /\ cacheMutex' = [cacheMutex EXCEPT !.writer = NoThread]
    /\ sweep' = [sweep EXCEPT !.pc = "select", !.now = 0, !.before = EmptyCache]
    /\ UNCHANGED <<userRoles, cache, cacheTTL, enableCaching, now, th, calls, mutated>>

\* ---------------------------------------------------------------- Next
Next ==
    \/ \E t \in Threads : HasPermission(t)
    \/ \E t \in Threads : HasAnyPermission(t)
    \/ \E t \in Threads : HasAllPermissions(t)
    \/ \E t \in Threads : ReadEnableCaching(t)
    \/ \E t \in Threads : checkCacheRLock(t)
    \/ \E t \in Threads : checkCacheLookup(t)
    \/ \E t \in Threads : LoadPermissions(t)
    \/ \E t \in Threads : ReadEnableCachingForUpdate(t)
    \/ \E t \in Threads : updateCacheLock(t)
    \/ \E t \in Threads : updateCacheWrite(t)
    \/ \E t \in Threads : HasRole(t)
    \/ \E t \in Threads : GetUserRoles(t)
    \/ \E t \in Threads : QueryRoles(t)
    \/ \E t \in Threads : AssignRole(t)
    \/ \E t \in Threads : RemoveRole(t)
    \/ \E t \in Threads : ExecRoleMutation(t)
    \/ \E t \in Threads : invalidateCacheLock(t)
    \/ \E t \in Threads : invalidateCacheDelete(t)
    \/ \E t \in Threads : InvalidateAllCache(t)
    \/ \E t \in Threads : InvalidateAllCacheLock(t)
    \/ \E t \in Threads : InvalidateAllCacheClear(t)
    \/ \E t \in Threads : Return(t)
    \/ SetCacheTTL
    \/ DisableCache
    \/ EnableCache
    \/ Tick
    \/ StartCacheCleanup
    \/ CancelContext
    \/ SweepStops
    \/ SweepTicks
    \/ cleanExpiredCacheLock
    \/ cleanExpiredCacheVisit
    \/ cleanExpiredCacheUnlock

Spec == Init /\ [][Next]_vars

\* Two goroutines (t1, t2) call the API of the shared Authorizer concurrently,
\* as the HTTP handlers of the server do; every step of one interleaves with
\* every step of the other, of the sweep, of the clock and of the setters.
InitConc ==
    /\ userRoles = [u \in UUIDs |-> {"user"}]
    /\ cache = EmptyCache
    /\ cacheMutex = [readers |-> {}, writer |-> NoThread]
    /\ cacheTTL = DefaultCacheTTL
    /\ enableCaching = TRUE
    /\ now = 0
    /\ th = [t \in Threads |-> IdleThread]
    /\ calls = 0
    /\ mutated = {}
    /\ sweep = [pc |-> "off", ctxDone |-> FALSE, now |-> 0, left |-> {}, swept |-> EmptyCache,
                before |-> EmptyCache]

\* The calls the concurrent callers make: single checks, role mutations and bulk
\* invalidation, for well-formed user IDs.
ConcHasPermission(t) ==
    \E userID \in ValidUserIDs, n \in PermissionNames :
        StartCheck(t, "HasPermission", userID, <<n>>)

ConcAssignRole(t) ==
    \E userID \in ValidUserIDs, roleName \in RoleNames :
        StartRoleCall(t, "AssignRole", userID, roleName, "exec")

ConcRemoveRole(t) ==
    \E userID \in ValidUserIDs, roleName \in RoleNames :
        StartRoleCall(t, "RemoveRole", userID, roleName, "exec")

NextConc ==
    \/ \E t \in Threads : ConcHasPermission(t)
    \/ \E t \in Threads : ReadEnableCaching(t)
    \/ \E t \in Threads : checkCacheRLock(t)
    \/ \E t \in Threads : checkCacheLookup(t)
    \/ \E t \in Threads : LoadPermissions(t)
    \/ \E t \in Threads : ReadEnableCachingForUpdate(t)
    \/ \E t \in Threads : updateCacheLock(t)
    \/ \E t \in Threads : updateCacheWrite(t)
    \/ \E t \in Threads : ConcAssignRole(t)
    \/ \E t \in Threads : ConcRemoveRole(t)
    \/ \E t \in Threads : ExecRoleMutation(t)
    \/ \E t \in Threads : invalidateCacheLock(t)
    \/ \E t \in Threads : invalidateCacheDelete(t)
    \/ \E t \in Threads : InvalidateAllCache(t)
    \/ \E t \in Threads : InvalidateAllCacheLock(t)
    \/ \E t \in Threads : InvalidateAllCacheClear(t)
    \/ \E t \in Threads : Return(t)
    \/ Tick
    \/ StartCacheCleanup
    \/ SweepTicks
    \/ cleanExpiredCacheLock
    \/ cleanExpiredCacheVisit
    \/ cleanExpiredCacheUnlock

SpecConc == InitConc /\ [][NextConc]_vars

\* The server's wiring: InitAuthorizer constructs the Authorizer with the
\* configured TTL and starts the sweep at once.  One goroutine calls the API;
\* the sweep, the clock and SetCacheTTL interleave with every step of its calls.
InitSweep ==
    /\ userRoles = [u \in UUIDs |-> {"user"}]
    /\ cache = EmptyCache
    /\ cacheMutex = [readers |-> {}, writer |-> NoThread]
    /\ cacheTTL \in TTLValues
    /\ enableCaching = TRUE
    /\ now = 0
    /\ th = [t \in Threads |-> IF t = "t1" THEN IdleThread ELSE [IdleThread EXCEPT !.pc = "off"]]
    /\ calls = 0
    /\ mutated = {}
    /\ sweep = [pc |-> "select", ctxDone |-> FALSE, now |-> 0, left |-> {}, swept |-> EmptyCache,
                before |-> EmptyCache]

NextSweep ==
    \/ \E t \in Threads : ConcHasPermission(t)
    \/ \E t \in Threads : ReadEnableCaching(t)
    \/ \E t \in Threads : checkCacheRLock(t)
    \/ \E t \in Threads : checkCacheLookup(t)
    \/ \E t \in Threads : LoadPermissions(t)
    \/ \E t \in Threads : ReadEnableCachingForUpdate(t)
    \/ \E t \in Threads : updateCacheLock(t)
    \/ \E t \in Threads : updateCacheWrite(t)
    \/ \E t \in Threads : ConcAssignRole(t)
    \/ \E t \in Threads : ConcRemoveRole(t)
    \/ \E t \in Threads : ExecRoleMutation(t)
    \/ \E t \in Threads : invalidateCacheLock(t)
    \/ \E t \in Threads : invalidateCacheDelete(t)
    \/ \E t \in Threads : Return(t)
    \/ SetCacheTTL
    \/ Tick
    \/ SweepTicks
    \/ cleanExpiredCacheLock
    \/ cleanExpiredCacheVisit
    \/ cleanExpiredCacheUnlock

SpecSweep == InitSweep /\ [][NextSweep]_vars

\* The server with a sweep whose context can be cancelled, under the scheduling
\* the runtime gives: a goroutine that can take a step takes it (its call goes on,
\* the lock is handed over, the pass goes on), a ticker keeps delivering ticks to
\* a select that waits, and a select that finds ctx.Done() ready again and again
\* picks it in the end (it chooses among the ready cases at random).
NextLive ==
    \/ \E t \in Threads : ConcHasPermission(t)
    \/ \E t \in Threads : ReadEnableCaching(t)
    \/ \E t \in Threads : checkCacheRLock(t)
    \/ \E t \in Threads : checkCacheLookup(t)
    \/ \E t \in Threads : LoadPermissions(t)
    \/ \E t \in Threads : ReadEnableCachingForUpdate(t)
    \/ \E t \in Threads : updateCacheLock(t)
    \/ \E t \in Threads : updateCacheWrite(t)
    \/ \E t \in Threads : Return(t)
    \/ SetCacheTTL
    \/ Tick
    \/ CancelContext
    \/ SweepStops
    \/ SweepTicks
    \/ cleanExpiredCacheLock
    \/ cleanExpiredCacheVisit
    \/ cleanExpiredCacheUnlock

CallStep(t) ==
    \/ ReadEnableCaching(t)
    \/ checkCacheRLock(t)
    \/ checkCacheLookup(t)
    \/ LoadPermissions(t)
    \/ ReadEnableCachingForUpdate(t)
    \/ updateCacheLock(t)
    \/ updateCacheWrite(t)
    \/ Return(t)

Fairness ==
    /\ \A t \in Threads : WF_vars(CallStep(t))
    /\ WF_vars(SweepTicks)
    /\ SF_vars(SweepStops)
    /\ WF_vars(cleanExpiredCacheLock)
    /\ WF_vars(cleanExpiredCacheVisit)
    /\ WF_vars(cleanExpiredCacheUnlock)

SpecLive == InitSweep /\ [][NextLive]_vars /\ Fairness

\* The server under load: two goroutines call the API while the sweep runs, and
\* the runtime schedules fairly.  A goroutine that can go on does so; the store
\* answers every query; sync.RWMutex hands the lock to a goroutine that waits for
\* it (a waiting Lock holds back new readers, a starving waiter is served first),
\* so a lock request that can be granted again and again is granted in the end.
InitFair ==
    /\ userRoles = [u \in UUIDs |-> {"user"}]
    /\ cache = EmptyCache
    /\ cacheMutex = [readers |-> {}, writer |-> NoThread]
    /\ cacheTTL = DefaultCacheTTL
    /\ enableCaching = TRUE
    /\ now = 0
    /\ th = [t \in Threads |-> IdleThread]
    /\ calls = 0
    /\ mutated = {}
    /\ sweep = [pc |-> "select", ctxDone |-> FALSE, now |-> 0, left |-> {}, swept |-> EmptyCache,
                before |-> EmptyCache]

\* The calls under load are for one user: what they ask does not matter to the lock.
FairUserID == <<"a", "1">>

FairHasPermission(t) == StartCheck(t, "HasPermission", FairUserID, <<"user.read">>)

FairAssignRole(t) == StartRoleCall(t, "AssignRole", FairUserID, "moderator", "exec")

NextFair ==
    \/ \E t \in Threads : FairHasPermission(t)
    \/ \E t \in Threads : ReadEnableCaching(t)
    \/ \E t \in Threads : checkCacheRLock(t)
    \/ \E t \in Threads : checkCacheLookup(t)
    \/ \E t \in Threads : LoadPermissions(t)
    \/ \E t \in Threads : ReadEnableCachingForUpdate(t)
    \/ \E t \in Threads : updateCacheLock(t)
    \/ \E t \in Threads : updateCacheWrite(t)
    \/ \E t \in Threads : FairAssignRole(t)
    \/ \E t \in Threads : ExecRoleMutation(t)
    \/ \E t \in Threads : invalidateCacheLock(t)
    \/ \E t \in Threads : invalidateCacheDelete(t)
    \/ \E t \in Threads : InvalidateAllCache(t)
    \/ \E t \in Threads : InvalidateAllCacheLock(t)
    \/ \E t \in Threads : InvalidateAllCacheClear(t)
    \/ \E t \in Threads : Return(t)
    \/ Tick
    \/ SweepTicks
    \/ cleanExpiredCacheLock
    \/ cleanExpiredCacheVisit
    \/ cleanExpiredCacheUnlock

\* The steps a call takes once it is made, lock requests apart.
RunStep(t) ==
    \/ ReadEnableCaching(t)
    \/ checkCacheLookup(t)
    \/ LoadPermissions(t)
    \/ ReadEnableCachingForUpdate(t)
    \/ updateCacheWrite(t)
    \/ ExecRoleMutation(t)
    \/ invalidateCacheDelete(t)
    \/ InvalidateAllCacheClear(t)
    \/ Return(t)

LockStep(t) ==
    \/ checkCacheRLock(t)
    \/ updateCacheLock(t)
    \/ invalidateCacheLock(t)
    \/ InvalidateAllCacheLock(t)

FairLocks ==
    /\ \A t \in Threads : WF_vars(RunStep(t)) /\ SF_vars(LockStep(t))
    /\ WF_vars(SweepTicks)
    /\ SF_vars(cleanExpiredCacheLock)
    /\ WF_vars(cleanExpiredCacheVisit)
    /\ WF_vars(cleanExpiredCacheUnlock)

SpecFair == InitFair /\ [][NextFair]_vars /\ FairLocks

\* Composite checks next to role mutations: one goroutine checks lists of two
\* names while the other changes the user's roles, the added role among them;
\* caching may be switched off and the clock runs.
CompositeCheck(t) ==
    \E op \in {"HasAnyPermission", "HasAllPermissions"},
       names \in {<<"user.read", "user.delete">>, <<"user.delete", "user.read">>} :
        StartCheck(t, op, FairUserID, names)

CustomAssignRole(t) ==
    \E roleName \in CustomRoleNames :
        StartRoleCall(t, "AssignRole", FairUserID, roleName, "exec")

CustomRemoveRole(t) ==
    \E roleName \in CustomRoleNames :
        StartRoleCall(t, "RemoveRole", FairUserID, roleName, "exec")

NextComposite ==
    \/ CompositeCheck("t1")
    \/ \E t \in Threads : ReadEnableCaching(t)
    \/ \E t \in Threads : checkCacheRLock(t)
    \/ \E t \in Threads : checkCacheLookup(t)
    \/ \E t \in Threads : LoadPermissions(t)
    \/ \E t \in Threads : ReadEnableCachingForUpdate(t)
    \/ \E t \in Threads : updateCacheLock(t)
    \/ \E t \in Threads : updateCacheWrite(t)
    \/ CustomAssignRole("t2")
    \/ CustomRemoveRole("t2")
    \/ \E t \in Threads : ExecRoleMutation(t)
    \/ \E t \in Threads : invalidateCacheLock(t)
    \/ \E t \in Threads : invalidateCacheDelete(t)
    \/ \E t \in Threads : Return(t)
    \/ DisableCache
    \/ Tick

SpecComposite == InitConc /\ [][NextComposite]_vars

\* ============================================================ properties
Done(t) == th[t].pc = "done"
IsCheck(r) == r.op \in {"HasPermission", "HasAnyPermission", "HasAllPermissions"}
Malformed == <<"z", "z">>
EntryNames(e) == {e.Permissions[i].Name : i \in 1..Len(e.Permissions)}
StoreGrants(userID, n) == n \in GrantedNames(rolesOf(userRoles, uuidParse(userID).uid))

\* What HasPermission(userID, n) answers when called in the current state.
WouldAnswer(userID, n) ==
    IF enableCaching /\ userID \in DOMAIN cache /\ now - cache[userID].LoadedAt <= cacheTTL
    THEN n \in EntryNames(cache[userID])
    ELSE StoreGrants(userID, n)

\* C1 -- TTL correctness: a lookup made at a time t > loadedAt + TTL is never
\* answered from that entry; it is a miss and the call goes on to a store load.
C1_TTLCorrectness ==
    \A t \in Threads :
        th[t].stale =>
            /\ ~th[t].hit
            /\ th[t].pc \in {"load", "flag2", "wlock", "wlocked", "done"}
            /\ th[t].pc # "load" => th[t].storeCalls >= 1

C1_Witness ==
    \E t \in Threads :
        /\ Done(t) /\ th[t].op = "HasPermission" /\ th[t].stale
        /\ th[t].err = NoError /\ th[t].res

\* C2 -- invalidation on mutation: the first HasPermission call for user U that
\* starts after AssignRole / RemoveRole for U returned success is never answered
\* from the cache.
C2_NextLookupQueriesStore ==
    \A t \in Threads : th[t].afterMut => ~th[t].hit

\* C3 -- no negative caching: a failed store load returns the error with the
\* boolean false, and the step in which the load fails leaves the cache as it was;
\* a HasPermission call that fails this way has written no entry.
C3_FailedLoadState ==
    \A t \in Threads :
        th[t].loadErr =>
            /\ Done(t)
            /\ th[t].err = ErrLoadPermissions
            /\ ~th[t].res
            /\ th[t].op = "HasPermission" => ~th[t].wrote

C3_FailedLoadStep ==
    \A t \in Threads : (~th[t].loadErr /\ th'[t].loadErr) => cache' = cache

C3_NoNegativeCaching == [](C3_FailedLoadState) /\ [][C3_FailedLoadStep]_vars

C3_Witness ==
    \E t \in Threads :
        /\ Done(t) /\ th[t].op = "HasPermission" /\ th[t].loadErr
        /\ th[t].userID \in DOMAIN cache

\* C4 -- cache transparency: every answer HasPermission gives equals membership of
\* the name in the store's permission set for the user at the moment the answer is
\* decided, which is what the call answers with caching disabled.
C4_CacheTransparency ==
    \A t \in Threads :
        (Done(t) /\ th[t].op = "HasPermission" /\ th[t].err = NoError)
            => th[t].res = th[t].truth

\* C5 -- a userID that does not parse is rejected with "invalid user ID" by
\* HasPermission, HasRole, GetUserRoles, AssignRole and RemoveRole, with no store
\* call, no cache access, and the cache and the store unchanged by the call.
C5_Ops == {"HasPermission", "HasRole", "GetUserRoles", "AssignRole", "RemoveRole"}

C5_RejectedState ==
    \A t \in Threads :
        (th[t].op \in C5_Ops /\ th[t].userID = Malformed) =>
            /\ Done(t)
            /\ th[t].err = ErrInvalidUserID
            /\ ~th[t].res /\ th[t].roles = <<>>
            /\ th[t].storeCalls = 0 /\ ~th[t].consulted /\ ~th[t].wrote

C5_RejectedStep ==
    \A t \in Threads :
        (th'[t].op \in C5_Ops /\ th'[t].userID = Malformed /\ th[t].pc = "idle")
            => (cache' = cache /\ userRoles' = userRoles)

C5_InvalidUserIDRejected == [](C5_RejectedState) /\ [][C5_RejectedStep]_vars

C5_Witness ==
    \E t \in Threads :
        /\ Done(t) /\ th[t].op = "AssignRole" /\ th[t].userID = Malformed
        /\ DOMAIN cache # {}

\* C6 -- fail closed: a call that returns a non-nil error returns the boolean
\* false and a nil role list.
C6_FailClosed ==
    \A t \in Threads :
        (Done(t) /\ th[t].err # NoError) => (~th[t].res /\ th[t].roles = <<>>)

C6_Witness ==
    \E t \in Threads :
        /\ Done(t) /\ th[t].op = "HasAllPermissions" /\ th[t].idx = 2
        /\ th[t].err = ErrLoadPermissions

\* C7 -- composition: a composite check with a valid user that met no error, and
\* during which clock, configuration, store and cache were changed by nobody else,
\* returns the disjunction (HasAnyPermission) resp. the conjunction
\* (HasAllPermissions) of what HasPermission answers for the names of its list.
C7_Composition ==
    \A t \in Threads :
        (Done(t) /\ th[t].steady /\ th[t].err = NoError /\ th[t].userID # Malformed) =>
            /\ th[t].op = "HasAnyPermission" =>
                 th[t].res = (\E i \in 1..Len(th[t].names) :
                                 WouldAnswer(th[t].userID, th[t].names[i]))
            /\ th[t].op = "HasAllPermissions" =>
                 th[t].res = (\A i \in 1..Len(th[t].names) :
                                 WouldAnswer(th[t].userID, th[t].names[i]))

C7_Witness ==
    \E t \in Threads :
        /\ Done(t) /\ th[t].steady /\ th[t].op = "HasAllPermissions"
        /\ th[t].names = <<"user.read", "user.delete">> /\ th[t].res

\* C8 -- short circuit and fail fast: a composite check over a non-empty list
\* stops at the element th[t].idx; no earlier name decided it, and when it
\* returned without error before the end of the list that element decided it.
C8_Decides(r, i) ==
    IF r.op = "HasAnyPermission" THEN WouldAnswer(r.userID, r.names[i])
    ELSE ~WouldAnswer(r.userID, r.names[i])

C8_ShortCircuit ==
    \A t \in Threads :
        (Done(t) /\ InCompositeOp(th[t]) /\ th[t].steady
           /\ th[t].names # <<>> /\ th[t].userID # Malformed) =>
            /\ th[t].idx \in 1..Len(th[t].names)
            /\ \A j \in 1..(th[t].idx - 1) : ~C8_Decides(th[t], j)
            /\ th[t].err = NoError =>
                 /\ th[t].idx < Len(th[t].names) => C8_Decides(th[t], th[t].idx)
                 /\ C8_Decides(th[t], th[t].idx) = (th[t].res = (th[t].op = "HasAnyPermission"))
            /\ th[t].err # NoError => (th[t].loadErr /\ ~th[t].res)
            /\ th[t].storeCalls <= th[t].idx

C8_Witness ==
    \E t \in Threads :
        /\ Done(t) /\ th[t].steady /\ th[t].op = "HasAnyPermission"
        /\ Len(th[t].names) = 2 /\ th[t].idx = 1 /\ th[t].res

\* C9 -- a cache hit has no effects: a lookup that finds an entry of age < TTL
\* answers membership of the name in the entry's set, issues no store query and
\* leaves the cache (keys, permissions, loadedAt) unchanged.
C9_HitStep ==
    \A t \in Threads :
        (/\ th[t].pc = "rlocked" /\ th'[t].pc # "rlocked"
         /\ th[t].userID \in DOMAIN cache
         /\ now - cache[th[t].userID].LoadedAt < cacheTTL) =>
            /\ cache' = cache
            /\ userRoles' = userRoles
            /\ th'[t].storeCalls = th[t].storeCalls
            /\ th'[t].wrote = th[t].wrote
            /\ th[t].op = "HasPermission" =>
                 /\ th'[t].pc = "done" /\ th'[t].hit /\ th'[t].err = NoError
                 /\ th'[t].res = (nameOf(th[t]) \in EntryNames(cache[th[t].userID]))

C9_HitHasNoEffects == [][C9_HitStep]_vars

C9_Witness ==
    \E t \in Threads :
        /\ Done(t) /\ th[t].op = "HasPermission" /\ th[t].hit /\ th[t].res
        /\ th[t].storeCalls = 0
        /\ now < cache[th[t].userID].LoadedAt + cacheTTL

\* C10 -- caching disabled: a HasPermission call with a valid userID that found
\* caching disabled at each of its reads of the flag issues exactly one store
\* query, makes no cache lookup and writes no cache entry.
C10_CachingDisabled ==
    \A t \in Threads :
        (Done(t) /\ th[t].op = "HasPermission" /\ th[t].userID # Malformed
           /\ ~th[t].sawEnabled) =>
            (th[t].storeCalls = 1 /\ ~th[t].consulted /\ ~th[t].hit /\ ~th[t].wrote)

C10_Witness ==
    \E t \in Threads :
        /\ Done(t) /\ th[t].op = "HasPermission" /\ ~th[t].sawEnabled
        /\ th[t].err = NoError /\ th[t].res
        /\ th[t].userID \in DOMAIN cache

\* C11 -- whole-set entries (I1): every cache entry holds the complete result of one
\* store load for the user of its key; a fill writes, under the write lock and in
\* one step, exactly the set its caller loaded in place of the entry, touching no
\* other key; the set a caller carries to the fill is the complete load for its
\* user.  Checked with two callers filling concurrently.
C11_IsLoadResult(permissions) ==
    \E S \in SUBSET Roles : permissions = loadUserPermissions(S)

C11_EntryIsOneLoad ==
    /\ \A k \in DOMAIN cache : uuidParse(k).ok /\ C11_IsLoadResult(cache[k].Permissions)
    /\ \A t \in Threads :
         th[t].pc \in {"flag2", "wlock", "wlocked"} => C11_IsLoadResult(th[t].permissions)

C11_FillStep ==
    /\ \A t \in Threads :
         (th[t].pc = "load" /\ th'[t].pc = "flag2") =>
            th'[t].permissions = loadUserPermissions(rolesOf(userRoles, uidOf(th[t])))
    /\ \A t \in Threads :
         (th[t].pc = "wlocked" /\ th'[t].pc # "wlocked") =>
            /\ cacheMutex.writer = t
            /\ DOMAIN cache' = DOMAIN cache \cup {th[t].userID}
            /\ cache'[th[t].userID].Permissions = th[t].permissions
            /\ \A k \in DOMAIN cache \ {th[t].userID} : cache'[k] = cache[k]
    /\ \A k \in DOMAIN cache' :
         (k \notin DOMAIN cache \/ cache'[k] # cache[k]) =>
            \E t \in Threads : th[t].pc = "wlocked" /\ th[t].userID = k

C11_WholeSetEntries == [](C11_EntryIsOneLoad) /\ [][C11_FillStep]_vars

\* the entry written by one caller is about to be replaced by the other caller's
\* load of a different set, both fills having been in flight together
C11_Witness ==
    /\ th["t1"].pc = "done" /\ th["t1"].wrote /\ th["t1"].op = "HasPermission"
    /\ th["t2"].pc = "wlock" /\ th["t2"].userID = th["t1"].userID
    /\ th["t2"].permissions # th["t1"].permissions
    /\ cache[th["t1"].userID].Permissions = th["t1"].permissions

\* C12 -- at most one entry per user: no two keys of the cache name the same
\* UUID, whatever textual forms of the user ID the calls passed.
C12_OneEntryPerUser ==
    \A k1 \in DOMAIN cache, k2 \in DOMAIN cache :
        uuidParse(k1).uid = uuidParse(k2).uid => k1 = k2

\* C13 -- mutation then invalidation (I4): an AssignRole / RemoveRole call that
\* returns success has made its store write before its invalidation, and at its
\* return, when no other caller has a check in progress, the cache holds no entry
\* for the user the call named.
IsMutation(r) == r.op \in {"AssignRole", "RemoveRole"}

FillInFlight(t) ==
    \E o \in Threads \ {t} :
        th[o].pc \in {"flag1", "rlock", "rlocked", "load", "flag2", "wlock", "wlocked"}

EntriesOfUser(uid) == {k \in DOMAIN cache : uuidParse(k).uid = uid}

C13_MutationThenInvalidation ==
    \A t \in Threads :
        /\ (IsMutation(th[t]) /\ th[t].pc \in {"invlock", "invlocked"}) => th[t].storeCalls = 1
        /\ (IsMutation(th[t]) /\ Done(t) /\ th[t].err = NoError) =>
              /\ th[t].storeCalls = 1
              /\ ~FillInFlight(t) => EntriesOfUser(uidOf(th[t])) = {}

\* C14 -- sequential freshness: with one caller (calls never overlap) and the
\* store changed only by AssignRole / RemoveRole, a HasPermission call that
\* returns without error answers membership of the name in the permission set the
\* store holds for the user at that moment.
C14_SequentialFreshness ==
    \A t \in Threads :
        (Done(t) /\ th[t].op = "HasPermission" /\ th[t].err = NoError) =>
            th[t].res = StoreGrants(th[t].userID, th[t].names[1])

\* C15 -- a failed mutation leaves the cache untouched: an AssignRole / RemoveRole
\* call whose store write fails returns the wrapped error of its operation with no
\* invalidation made: it returns from the store write itself, and that step leaves
\* every cache entry, the lock and the store as they were.
C15_FailedState ==
    \A t \in Threads :
        (IsMutation(th[t]) /\ Done(t) /\ th[t].err \notin {NoError, ErrInvalidUserID}) =>
            /\ th[t].err = (IF th[t].op = "AssignRole" THEN ErrAssignRole ELSE ErrRemoveRole)
            /\ ~th[t].res
            /\ th[t].storeCalls = 1

C15_FailedStep ==
    \A t \in Threads :
        (/\ IsMutation(th'[t]) /\ th'[t].pc = "done" /\ th[t].pc # "done"
         /\ th'[t].err \in {ErrAssignRole, ErrRemoveRole}) =>
            /\ th[t].pc = "exec"
            /\ cache' = cache
            /\ cacheMutex' = cacheMutex
            /\ userRoles' = userRoles

C15_FailedMutationKeepsCache == [](C15_FailedState) /\ [][C15_FailedStep]_vars

C15_Witness ==
    \E t \in Threads :
        /\ Done(t) /\ th[t].op = "RemoveRole" /\ th[t].err = ErrRemoveRole
        /\ th[t].userID \in DOMAIN cache

\* C16 -- role mutations are idempotent: a successful AssignRole of a role the user
\* has, and a successful RemoveRole of a role the user has not, leave user_roles as
\* it was; the store a successful mutation leaves is the one the same mutation
\* made again would leave, and so is the cache its invalidation leaves, in which
\* the key the call named is absent.
C16_Write(ur, r) ==
    IF r.op = "AssignRole" THEN insertUserRole(ur, uidOf(r), r.roleName)
    ELSE deleteUserRole(ur, uidOf(r), r.roleName)

C16_StoreStep ==
    \A t \in Threads :
        (th[t].pc = "exec" /\ th'[t].pc = "invlock") =>
            /\ userRoles' = C16_Write(userRoles, th[t])
            /\ C16_Write(userRoles', th[t]) = userRoles'
            /\ (th[t].op = "AssignRole" /\ th[t].roleName \in userRoles[uidOf(th[t])])
                  => userRoles' = userRoles
            /\ (th[t].op = "RemoveRole" /\ th[t].roleName \notin userRoles[uidOf(th[t])])
                  => userRoles' = userRoles

C16_CacheStep ==
    \A t \in Threads :
        (th[t].pc = "invlocked" /\ th'[t].pc = "done") =>
            /\ th'[t].err = NoError
            /\ th[t].userID \notin DOMAIN cache'
            /\ invalidateCache(cache', th[t].userID) = cache'
            /\ userRoles' = userRoles

C16_Idempotent == [][C16_StoreStep /\ C16_CacheStep]_vars

\* the first call of the run assigns the role the user has from the start
C16_Witness ==
    \E t \in Threads :
        /\ Done(t) /\ th[t].op = "AssignRole" /\ th[t].err = NoError
        /\ calls = 1 /\ th[t].roleName = "user"
        /\ userRoles[uidOf(th[t])] = {"user"}

\* C17 -- HasRole and GetUserRoles go to the store and leave the cache alone: a
\* call with a well-formed user ID makes exactly one store query and no cache
\* lookup or write, its answer is what user_roles holds when it returns, and no
\* step of the call changes the cache or takes its lock.
IsRoleQuery(r) == r.op \in {"HasRole", "GetUserRoles"}

C17_ReturnState ==
    \A t \in Threads :
        (IsRoleQuery(th[t]) /\ Done(t) /\ th[t].userID # Malformed) =>
            /\ th[t].storeCalls = 1
            /\ ~th[t].consulted /\ ~th[t].hit /\ ~th[t].wrote
            /\ (th[t].err = NoError /\ th[t].op = "HasRole") =>
                  th[t].res = existsUserRole(userRoles, uidOf(th[t]), th[t].roleName)
            /\ (th[t].err = NoError /\ th[t].op = "GetUserRoles") =>
                  th[t].roles = selectUserRoles(userRoles, uidOf(th[t]))

C17_CallStep ==
    \A t \in Threads :
        (IsRoleQuery(th'[t]) /\ th'[t] # th[t] /\ th[t].pc # "done") =>
            /\ cache' = cache
            /\ cacheMutex' = cacheMutex
            /\ userRoles' = userRoles

C17_RoleQueriesBypassCache == [](C17_ReturnState) /\ [][C17_CallStep]_vars

\* HasRole answers from the store while a valid entry of the user is cached
C17_Witness ==
    \E t \in Threads :
        /\ Done(t) /\ th[t].op = "HasRole" /\ th[t].err = NoError
        /\ th[t].roleName = "moderator" /\ th[t].res
        /\ enableCaching
        /\ th[t].userID \in DOMAIN cache
        /\ now - cache[th[t].userID].LoadedAt < cacheTTL

\* C18 -- InvalidateAllCache removes every entry: its clearing step, made as the
\* only holder of the lock, leaves the empty map whatever the entries' ages, and
\* clearing again would change nothing; at its return, with no check of another
\* caller in progress, the cache is empty.  With callers and sweep running
\* concurrently the lock has at any time one writer and no reader, or readers
\* only, held by those at the locked position, and every entry is a complete one.
C18_LockExclusion ==
    /\ cacheMutex.writer # NoThread => cacheMutex.readers = {}
    /\ cacheMutex.readers = {t \in Threads : th[t].pc = "rlocked"}
    /\ \A t \in Threads :
         th[t].pc \in {"wlocked", "invlocked", "alllocked"} <=> cacheMutex.writer = t
    /\ sweep.pc = "locked" <=> cacheMutex.writer = Sweeper

C18_EntriesComplete ==
    \A k \in DOMAIN cache :
        /\ cache[k].LoadedAt \in 0..now
        /\ C11_IsLoadResult(cache[k].Permissions)

C18_ReturnState ==
    \A t \in Threads :
        (Done(t) /\ th[t].op = "InvalidateAllCache") =>
            /\ th[t].err = NoError
            /\ ~FillInFlight(t) => cache = EmptyCache

C18_ClearStep ==
    \A t \in Threads :
        (th[t].pc = "alllocked" /\ th'[t].pc # "alllocked") =>
            /\ cacheMutex.writer = t
            /\ cache' = EmptyCache
            /\ clearCache(cache') = cache'
            /\ userRoles' = userRoles

C18_InvalidateAll ==
    [](C18_LockExclusion /\ C18_EntriesComplete /\ C18_ReturnState) /\ [][C18_ClearStep]_vars

\* bulk invalidation has returned while the other caller, whose lookup had found
\* an entry (an expired one), is between that lookup and its fill
C18_Witness ==
    /\ Done("t1") /\ th["t1"].op = "InvalidateAllCache"
    /\ cache = EmptyCache
    /\ th["t2"].pc = "load" /\ th["t2"].stale

\* C19 -- validity boundary (I2): a lookup that finds an entry is answered from it
\* exactly when now - loadedAt < TTL; at an age equal to the TTL it is a miss and
\* the call goes on to the store load.
C19_LookupOfEntry(t) ==
    /\ th[t].pc = "rlocked" /\ th'[t].pc # "rlocked"
    /\ th[t].userID \in DOMAIN cache

C19_StrictStep ==
    \A t \in Threads :
        C19_LookupOfEntry(t) =>
            (th'[t].pc # "load" <=> now - cache[th[t].userID].LoadedAt < cacheTTL)

C19_StrictBoundary == [][C19_StrictStep]_vars

\* C20 -- the sweep has no correctness role: whatever the schedule of sweep
\* passes, a HasPermission call made in any reachable state returns the boolean
\* and the error it returns in the run without the sweep, whose cache still holds
\* the entries the passes deleted.
NoSweepCache ==
    [k \in DOMAIN cache \cup DOMAIN sweep.swept |->
        IF k \in DOMAIN cache THEN cache[k] ELSE sweep.swept[k]]

\* <<boolean, error>> of HasPermission(userID, n) over cache c, the store query,
\* if one is made, succeeding (ok) or failing
C20_Answer(c, userID, n, ok) ==
    LET got == checkCache(c, userID, n, now, cacheTTL)
    IN IF enableCaching /\ got[2] THEN <<got[1], NoError>>
       ELSE IF ok THEN <<StoreGrants(userID, n), NoError>>
       ELSE <<FALSE, ErrLoadPermissions>>

C20_SameAnswers ==
    \A userID \in ValidUserIDs, n \in PermissionNames, ok \in BOOLEAN :
        C20_Answer(cache, userID, n, ok) = C20_Answer(NoSweepCache, userID, n, ok)

C20_SweepUnobservable == C20_SameAnswers

\* C20, amended -- the sweep deletes only entries that are expired under the TTL
\* in force at the pass and changes nothing else; as long as SetCacheTTL does not
\* raise the TTL, a HasPermission call returns the boolean and the error it
\* returns in the run without the sweep.
C20_SweepStep ==
    (sweep.pc = "locked" /\ cache' # cache) =>
        /\ cacheMutex.writer = Sweeper
        /\ \A k \in DOMAIN cache \ DOMAIN cache' : now - cache[k].LoadedAt > cacheTTL
        /\ \A k \in DOMAIN cache' : k \in DOMAIN cache /\ cache'[k] = cache[k]
        /\ userRoles' = userRoles

C20_Preserved ==
    (cacheTTL' <= cacheTTL /\ C20_SameAnswers) => C20_SameAnswers'

C20_SweepOnlyFreesExpired == [][C20_SweepStep /\ C20_Preserved]_vars

\* after a pass deleted the expired entry of a user, a HasPermission call for
\* that user has missed and its store load has failed
C20_Witness ==
    \E t \in Threads :
        /\ Done(t) /\ th[t].op = "HasPermission" /\ th[t].err = ErrLoadPermissions
        /\ th[t].userID \in DOMAIN sweep.swept
        /\ sweep.swept[th[t].userID].Permissions # <<>>
        /\ C20_SameAnswers

\* C21 -- one sweep pass is exact: when the pass has visited every entry, the map
\* holds exactly the entries it found whose age at the pass's time does not
\* exceed the current TTL, each with its permissions and loadedAt unchanged.
C21_Kept(c, t, ttl) ==
    [k \in {x \in DOMAIN c : t - c[x].LoadedAt <= ttl} |-> c[k]]

C21_PassExact ==
    (sweep.pc = "locked" /\ sweep.left = {}) =>
        cache = C21_Kept(sweep.before, sweep.now, cacheTTL)

\* C22 -- the sweep is cancellable: once the context is cancelled the sweep
\* goroutine terminates in the end; once it has returned it stays so, holds the
\* lock no more, and every later change of the cache is a caller's.
C22_StoppedStep ==
    sweep.pc = "stopped" =>
        /\ sweep'.pc = "stopped"
        /\ cacheMutex.writer # Sweeper /\ cacheMutex'.writer # Sweeper
        /\ cache' # cache => \E t \in Threads : cacheMutex.writer = t

C22_SweepCancellable ==
    /\ sweep.ctxDone ~> (sweep.pc = "stopped")
    /\ [][C22_StoppedStep]_vars

\* the sweep has returned and an expired entry stays in the map
C22_Witness ==
    /\ sweep.pc = "stopped"
    /\ \E k \in DOMAIN cache : now - cache[k].LoadedAt > cacheTTL
    /\ \E t \in Threads : th[t].pc = "wlock"

\* C23 -- the sweep frees expired entries: while the context is not cancelled,
\* an entry whose age exceeds the TTL leaves the map in the end (deleted by a
\* pass, if not replaced or invalidated before), unless the TTL is raised so that
\* it is no longer expired; no lookup for its user is needed.
C23_Expired(k, l) ==
    /\ k \in DOMAIN cache
    /\ cache[k].LoadedAt = l
    /\ now - l > cacheTTL

C23_ExpiredEntriesGo ==
    \A k \in ValidUserIDs, l \in 0..MaxTime :
        (C23_Expired(k, l) /\ ~sweep.ctxDone) ~> (~C23_Expired(k, l) \/ sweep.ctxDone)

\* a pass has deleted the only entry, with no call made after the one that
\* filled it, the TTL never changed and the context not cancelled
C23_Witness ==
    /\ calls = 1 /\ \A t \in Threads : th[t].pc \in {"idle", "off"}
    /\ ~sweep.ctxDone
    /\ cache = EmptyCache
    /\ \E k \in DOMAIN sweep.swept : now - sweep.swept[k].LoadedAt > cacheTTL

\* C24 -- lock discipline: at any time at most one goroutine is in a writing
\* critical section (fill, per-user invalidation, bulk invalidation, sweep pass)
\* and then none is in a lookup; every step that changes the map is made with
\* exactly one writer and no reader inside, and every lookup reads the map as a
\* registered reader with no writer inside.  Several lookups may be inside at once.
C24_Writers ==
    {t \in Threads : th[t].pc \in {"wlocked", "invlocked", "alllocked"}}
        \cup (IF sweep.pc = "locked" THEN {Sweeper} ELSE {})

C24_Readers == {t \in Threads : th[t].pc = "rlocked"}

C24_Exclusion ==
    /\ Cardinality(C24_Writers) <= 1
    /\ C24_Writers # {} => C24_Readers = {}

C24_AccessStep ==
    /\ cache' # cache =>
          /\ Cardinality(C24_Writers) = 1 /\ C24_Readers = {}
          /\ cacheMutex.writer \in C24_Writers
    /\ \A t \in Threads :
          (th[t].pc = "rlocked" /\ th'[t].pc # "rlocked") =>
              (t \in cacheMutex.readers /\ cacheMutex.writer = NoThread /\ C24_Writers = {})

C24_LockDiscipline == [](C24_Exclusion) /\ [][C24_AccessStep]_vars

\* both callers are inside their lookups of a filled map at once
C24_Witness ==
    /\ C24_Readers = Threads
    /\ cacheMutex.readers = Threads
    /\ cache # EmptyCache

\* C25 -- the configuration fields are guarded by the cache's lock: a write of
\* cacheTTL or enableCaching is never made while another goroutine is inside a
\* section of the lock, where the lookup and the sweep read cacheTTL.
C25_SetterStep ==
    (cacheTTL' # cacheTTL \/ enableCaching' # enableCaching) => MutexFree

C25_ConfigGuardedByLock == [][C25_SetterStep]_vars

\* C26 -- store I/O happens outside the lock: a caller whose store query or store
\* mutation is in progress holds the lock in neither mode, so it keeps no other
\* caller from taking the lock; a HasPermission miss has made its store read before
\* it takes the write lock, and has released the lock when it answers.
C26_AtStore(t) == th[t].pc \in {"load", "exec", "query"}

C26_HoldsLock(t) == t \in cacheMutex.readers \/ cacheMutex.writer = t

C26_StoreOutsideLock ==
    \A t \in Threads :
        /\ C26_AtStore(t) =>
              /\ ~C26_HoldsLock(t)
              /\ \A o \in Threads \ {t} :
                    /\ (th[o].pc = "rlock" /\ sweep.pc # "locked") => ENABLED checkCacheRLock(o)
                    /\ (th[o].pc = "wlock" /\ sweep.pc # "locked") => ENABLED updateCacheLock(o)
                    /\ th[o].pc = "load" => ENABLED LoadPermissions(o)
        /\ th[t].pc \in {"flag2", "wlock", "wlocked"} => th[t].storeCalls >= 1
        /\ th[t].pc \in {"flag2", "wlock"} => ~C26_HoldsLock(t)
        /\ Done(t) => ~C26_HoldsLock(t)

\* one caller's store query is in progress while the other is inside its fill
C26_Witness ==
    /\ th["t1"].pc = "load"
    /\ th["t2"].pc = "wlocked"
    /\ th["t1"].userID = th["t2"].userID

\* C27 -- SetCacheTTL takes effect at once and stamps nothing anew: the setter's
\* step changes the TTL and nothing else (no entry added, removed or modified, the
\* lock not taken); every lookup and every visit of a sweep pass made afterwards
\* compares the entry's loadedAt, as it was written, with the TTL then set.
C27_SetterStep ==
    cacheTTL' # cacheTTL =>
        /\ cache' = cache
        /\ cacheMutex' = cacheMutex
        /\ userRoles' = userRoles
        /\ enableCaching' = enableCaching
        /\ now' = now

C27_LookupStep ==
    \A t \in Threads :
        (th[t].pc = "rlocked" /\ th'[t].pc # "rlocked" /\ th[t].userID \in DOMAIN cache) =>
            /\ cache' = cache
            /\ th'[t].pc = "load" <=> now - cache[th[t].userID].LoadedAt > cacheTTL

C27_VisitStep ==
    \A k \in sweep.left \ sweep'.left :
        /\ k \notin DOMAIN cache' <=> sweep.now - cache[k].LoadedAt > cacheTTL
        /\ \A x \in DOMAIN cache' : cache'[x] = cache[x]

C27_NoRestamp == [][C27_SetterStep /\ C27_LookupStep /\ C27_VisitStep]_vars

\* a lookup, after the TTL was lowered, has missed on an entry (its reload failed)
\* whose age is within the TTL it was loaded under
C27_Witness ==
    \E t \in Threads :
        /\ Done(t) /\ th[t].op = "HasPermission" /\ th[t].stale /\ th[t].loadErr
        /\ cacheTTL < DefaultCacheTTL
        /\ now - cache[th[t].userID].LoadedAt <= DefaultCacheTTL

\* C28 -- an empty permission set is a result like any other: a HasPermission
\* call whose store load succeeded with no rows answers (false, nil) and, when it
\* fills the cache, leaves an entry with the empty set under its key; a lookup
\* that finds a valid entry with the empty set answers (false, nil) with no store
\* query.
C28_EmptyLoadState ==
    \A t \in Threads :
        (/\ Done(t) /\ th[t].op = "HasPermission" /\ th[t].storeCalls = 1
         /\ ~th[t].loadErr /\ th[t].permissions = <<>>) =>
            /\ ~th[t].res /\ th[t].err = NoError
            /\ th[t].wrote =>
                  /\ th[t].userID \in DOMAIN cache
                  /\ cache[th[t].userID] = [Permissions |-> <<>>, LoadedAt |-> now]

C28_EmptyHitStep ==
    \A t \in Threads :
        (/\ th[t].pc = "rlocked" /\ th'[t].pc # "rlocked" /\ th[t].op = "HasPermission"
         /\ th[t].userID \in DOMAIN cache
         /\ cache[th[t].userID].Permissions = <<>>
         /\ now - cache[th[t].userID].LoadedAt <= cacheTTL) =>
            /\ th'[t].pc = "done" /\ ~th'[t].res /\ th'[t].err = NoError
            /\ th'[t].storeCalls = 0
            /\ cache' = cache

C28_EmptySetCacheable == [](C28_EmptyLoadState) /\ [][C28_EmptyHitStep]_vars

\* a user without roles: the check is answered false from the cached empty set
C28_Witness ==
    \E t \in Threads :
        /\ Done(t) /\ th[t].op = "HasPermission" /\ th[t].hit /\ th[t].storeCalls = 0
        /\ ~th[t].res /\ th[t].err = NoError
        /\ userRoles[uidOf(th[t])] = {}
        /\ cache[th[t].userID].Permissions = <<>>

\* C29 -- lost-invalidation window: a check that loaded its set before a
\* concurrent AssignRole / RemoveRole for the same key deleted the entry still
\* writes that set, stamped with the time of the write; a lookup of an entry within
\* its TTL is answered from the entry, whatever the store holds, with no store
\* query; and an entry stays as it is until a fill of its key, an invalidation of
\* its key, a bulk invalidation or a sweep of an expired entry.
C29_LostFillStep ==
    \A t \in Threads :
        (th[t].pc = "wlocked" /\ th'[t].pc # "wlocked" /\ th[t].lost) =>
            /\ th[t].userID \in DOMAIN cache'
            /\ cache'[th[t].userID] = [Permissions |-> th[t].permissions, LoadedAt |-> now]

C29_HitStep ==
    \A t \in Threads :
        (/\ th[t].pc = "rlocked" /\ th'[t].pc # "rlocked"
         /\ th[t].userID \in DOMAIN cache
         /\ now - cache[th[t].userID].LoadedAt <= cacheTTL) =>
            /\ th'[t].pc = "done" /\ th'[t].err = NoError
            /\ th'[t].res = (\E i \in 1..Len(cache[th[t].userID].Permissions) :
                                cache[th[t].userID].Permissions[i].Name = nameOf(th[t]))
            /\ th'[t].storeCalls = 0

C29_EntryStaysStep ==
    \A k \in DOMAIN cache :
        (k \notin DOMAIN cache' \/ cache'[k] # cache[k]) =>
            \/ \E t \in Threads : th[t].pc = "wlocked" /\ th[t].userID = k
            \/ \E t \in Threads : th[t].pc = "invlocked" /\ th[t].userID = k
            \/ \E t \in Threads : th[t].pc = "alllocked"
            \/ sweep.pc = "locked" /\ sweep.now - cache[k].LoadedAt > cacheTTL

C29_LostInvalidation == [][C29_LostFillStep /\ C29_HitStep /\ C29_EntryStaysStep]_vars

\* the check has just written the set it loaded before the mutation that deleted
\* its key: the entry is within its TTL and disagrees with the store
C29_Witness ==
    \E t \in Threads :
        /\ Done(t) /\ th[t].op = "HasPermission" /\ th[t].wrote /\ th[t].lost
        /\ th[t].userID \in DOMAIN cache
        /\ cache[th[t].userID] = [Permissions |-> th[t].permissions, LoadedAt |-> now]
        /\ th[t].permissions # loadUserPermissions(rolesOf(userRoles, uidOf(th[t])))
        /\ \E n \in PermissionNames :
              WouldAnswer(th[t].userID, n) # StoreGrants(th[t].userID, n)

\* C30 -- no single-flight: a check that missed makes its own store query, and
\* it can make it while another check of the same key holds a load or is writing;
\* every check that loaded has made exactly one query of its own; a fill by a
\* check that shared its flight with another replaces whatever entry is there by
\* its own set, so the entry left is the one written last.
C30_OwnQuery ==
    \A t \in Threads :
        /\ (th[t].pc = "load" /\ NoneReturning) => ENABLED LoadPermissions(t)
        /\ (th[t].op = "HasPermission" /\ th[t].pc \in {"flag2", "wlock", "wlocked"}) =>
              th[t].storeCalls = 1

C30_LastWriterStep ==
    \A t \in Threads :
        (/\ th[t].pc = "wlocked" /\ th'[t].pc # "wlocked"
         /\ (th[t].second \/ th[t].overtaken > 0)) =>
            /\ th'[t].storeCalls = 1
            /\ th[t].userID \in DOMAIN cache'
            /\ cache'[th[t].userID].Permissions = th[t].permissions
            /\ cache'[th[t].userID].LoadedAt = now

C30_NoSingleFlight == [](C30_OwnQuery) /\ [][C30_LastWriterStep]_vars

\* two checks of one key missed together; the one that read the store first wrote
\* last, after the other had written another set: the entry is the first read
C30_Witness ==
    \E t \in Threads :
        /\ Done(t) /\ th[t].op = "HasPermission" /\ th[t].wrote /\ th[t].overtaken = 2
        /\ th[t].storeCalls = 1
        /\ th[t].userID \in DOMAIN cache
        /\ cache[th[t].userID].Permissions = th[t].permissions

\* C31 -- one load serves a whole composite check: while caching is enabled and
\* nobody else changes clock, configuration, store or cache during the call, a
\* HasAnyPermission / HasAllPermissions call over a non-empty list queries the
\* store only at its first name, at most once; a call that went past the first
\* name was answered there from the cache, and when it did query the store the
\* entry it is answered from is the one its load wrote.
C31_Calm(r) ==
    /\ InCompositeOp(r) /\ r.steady /\ enableCaching
    /\ r.names # <<>> /\ uuidParse(r.userID).ok

C31_OneLoadPerComposite ==
    \A t \in Threads :
        /\ (C31_Calm(th[t]) /\ th[t].pc \in {"load", "flag2", "wlock", "wlocked"}) =>
              /\ th[t].idx = 1
              /\ th[t].storeCalls = IF th[t].pc = "load" THEN 0 ELSE 1
        /\ (C31_Calm(th[t]) /\ Done(t)) =>
              /\ th[t].storeCalls <= 1
              /\ th[t].idx > 1 =>
                    /\ th[t].hit
                    /\ th[t].storeCalls = 1 =>
                          /\ th[t].wrote
                          /\ th[t].userID \in DOMAIN cache
                          /\ cache[th[t].userID] =
                                [Permissions |-> th[t].permissions, LoadedAt |-> now]

\* a composite check missed at its first name, loaded and filled, and was answered
\* at its second name from that entry
C31_Witness ==
    \E t \in Threads :
        /\ Done(t) /\ C31_Calm(th[t]) /\ th[t].idx = 2
        /\ th[t].storeCalls = 1 /\ th[t].wrote /\ th[t].hit

\* C32 -- expiry destroys an entry on lookup: when a HasPermission call whose
\* lookup found the entry of its key expired returns, that entry is gone from the
\* map (deleted, or replaced by the fill of this call).
C32_ExpiryDestroysEntry ==
    \A t \in Threads :
        (Done(t) /\ th[t].op = "HasPermission" /\ th[t].stale) =>
            \/ th[t].userID \notin DOMAIN cache
            \/ th[t].wrote

\* C33 -- no deadlock, no indefinite blocking: whoever holds the cache lock can
\* take its releasing step at once, whatever the store and the other goroutines
\* do, and the lock is never held by a caller that waits for the store or for a
\* second lock; under fair scheduling every lock request of a lookup, a fill, an
\* invalidation or a sweep pass is granted in the end, every holder lets go, and
\* every HasPermission call whose store query has answered returns.
C33_HolderCanGo ==
    /\ \A t \in Threads :
         (NoneReturning /\ th[t].pc = "rlocked") => ENABLED checkCacheLookup(t)
    /\ \A t \in Threads :
         (NoneReturning /\ th[t].pc = "wlocked") => ENABLED updateCacheWrite(t)
    /\ \A t \in Threads :
         (NoneReturning /\ th[t].pc = "invlocked") => ENABLED invalidateCacheDelete(t)
    /\ \A t \in Threads :
         (NoneReturning /\ th[t].pc = "alllocked") => ENABLED InvalidateAllCacheClear(t)
    /\ (NoneReturning /\ sweep.pc = "locked") =>
         ENABLED (cleanExpiredCacheVisit \/ cleanExpiredCacheUnlock)
    /\ \A t \in Threads :
         (cacheMutex.writer = t \/ t \in cacheMutex.readers) =>
            th[t].pc \in {"rlocked", "wlocked", "invlocked", "alllocked"}

C33_Waits(t) == th[t].pc \in {"rlock", "wlock", "invlock", "alllock"}
C33_Holds(t) == cacheMutex.writer = t \/ t \in cacheMutex.readers

C33_Granted ==
    /\ \A t \in Threads : C33_Waits(t) ~> C33_Holds(t)
    /\ (sweep.pc = "lock") ~> (cacheMutex.writer = Sweeper)

C33_Released ==
    /\ \A t \in Threads : C33_Holds(t) ~> ~C33_Holds(t)
    /\ (cacheMutex.writer = Sweeper) ~> (cacheMutex.writer # Sweeper)

C33_Returns ==
    \A t \in Threads :
        (th[t].op = "HasPermission" /\ th[t].pc = "flag2") ~> Done(t)

C33_NoIndefiniteBlocking ==
    /\ [](C33_HolderCanGo)
    /\ C33_Granted
    /\ C33_Released
    /\ C33_Returns

\* a fill waits for the lock that the sweep holds while the other caller waits to
\* read
C33_Witness ==
    /\ cacheMutex.writer = Sweeper
    /\ \E t \in Threads, o \in Threads :
          th[t].pc = "wlock" /\ th[o].pc = "rlock"

\* C34 -- entries are only added by a successful load: a step that leaves a key
\* with an entry it did not have before is the fill of a check (HasPermission,
\* alone or inside a composite) for that key, whose load succeeded and which read
\* the caching flag as enabled before the fill; it writes the loaded set stamped
\* with the current time.  Every other step (role queries, role mutations, bulk
\* invalidation, the sweep, the setters, the clock) leaves each entry as it was or
\* deletes it.
C34_IsFill(t, k) ==
    /\ th[t].pc = "wlocked" /\ th'[t].pc # "wlocked"
    /\ IsCheck(th[t]) /\ th[t].userID = k
    /\ th[t].storeCalls >= 1 /\ ~th[t].loadErr /\ th[t].sawEnabled
    /\ cache'[k] = [Permissions |-> th[t].permissions, LoadedAt |-> now]

C34_FrameStep ==
    \A k \in DOMAIN cache' :
        (k \notin DOMAIN cache \/ cache'[k] # cache[k]) =>
            \E t \in Threads : C34_IsFill(t, k)

C34_OnlyLoadsAdd == [][C34_FrameStep]_vars

\* a role mutation has returned: it deleted the entry of its key and left the
\* entry under the other key as it was
C34_Witness ==
    \E t \in Threads :
        /\ Done(t) /\ IsMutation(th[t]) /\ th[t].err = NoError
        /\ th[t].userID \notin DOMAIN cache
        /\ cache # EmptyCache

\* C35 -- invalidation is independent of the caching flag: DisableCache and
\* EnableCache leave the map as it is; an AssignRole / RemoveRole call that
\* returns success has left no entry of its user in the map, and an
\* InvalidateAllCache call that returns has left the map empty, whether caching
\* is enabled or not; so an entry that is served after the flag went off and on
\* again has seen no successful mutation of its user in between.
C35_FlagStep == (enableCaching' # enableCaching) => (cache' = cache)

C35_InvalidatedState ==
    \A t \in Threads :
        /\ (Done(t) /\ IsMutation(th[t]) /\ th[t].err = NoError) =>
              EntriesOfUser(uidOf(th[t])) = {}
        /\ (Done(t) /\ th[t].op = "InvalidateAllCache") => cache = EmptyCache

C35_InvalidationIgnoresFlag == [](C35_InvalidatedState) /\ [][C35_FlagStep]_vars

\* C36 -- composite checks are not atomic: every name of a HasAnyPermission /
\* HasAllPermissions call is evaluated by a HasPermission call of its own, which
\* starts with no lock held and nothing kept from the name before: a name that
\* misses is answered from a store query made at that moment, a name that hits
\* from the entry found at that moment.
C36_BetweenNames ==
    \A t \in Threads :
        (InCompositeOp(th[t]) /\ th[t].pc \in {"flag1", "rlock", "load", "flag2", "wlock"}) =>
            /\ cacheMutex.writer # t /\ t \notin cacheMutex.readers
            /\ th[t].idx \in 1..Len(th[t].names)

C36_NameStep ==
    \A t \in Threads :
        /\ (InCompositeOp(th[t]) /\ th[t].pc = "load" /\ th'[t].pc = "flag2") =>
              th'[t].permissions = loadUserPermissions(rolesOf(userRoles, uidOf(th[t])))
        /\ (InCompositeOp(th[t]) /\ th[t].pc = "rlocked" /\ th'[t].pc # "rlocked"
               /\ th'[t].hit) =>
              /\ th[t].userID \in DOMAIN cache
              /\ now - cache[th[t].userID].LoadedAt <= cacheTTL
              /\ (th[t].op = "HasAnyPermission"
                    /\ hasName(cache[th[t].userID].Permissions, nameOf(th[t]))) =>
                    (th'[t].pc = "done" /\ th'[t].res)
              /\ (th[t].op = "HasAllPermissions"
                    /\ ~hasName(cache[th[t].userID].Permissions, nameOf(th[t]))) =>
                    (th'[t].pc = "done" /\ ~th'[t].res)

C36_NotAtomic == [](C36_BetweenNames) /\ [][C36_NameStep]_vars

\* HasAllPermissions has returned true; at no moment of the call did the store
\* grant the user both names
C36_Witness ==
    \E t \in Threads :
        /\ Done(t) /\ th[t].op = "HasAllPermissions" /\ th[t].err = NoError
        /\ th[t].res /\ th[t].idx = 2
        /\ ~th[t].allGranted

\* C37 -- empty name lists skip validation: HasAllPermissions(userID, []) returns
\* (true, nil) and HasAnyPermission(userID, []) returns (false, nil) for every
\* userID string, one that does not parse included; the call is over in one step
\* that touches neither the store nor the cache nor the lock.
C37_EmptyListState ==
    \A t \in Threads :
        (Done(t) /\ InCompositeOp(th[t]) /\ th[t].names = <<>>) =>
            /\ th[t].res = (th[t].op = "HasAllPermissions")
            /\ th[t].err = NoError
            /\ th[t].storeCalls = 0 /\ ~th[t].consulted /\ ~th[t].wrote /\ ~th[t].hit

C37_EmptyListStep ==
    \A t \in Threads :
        (th[t].pc = "idle" /\ InCompositeOp(th'[t]) /\ th'[t].names = <<>>) =>
            /\ th'[t].pc = "done"
            /\ cache' = cache /\ cacheMutex' = cacheMutex /\ userRoles' = userRoles

C37_EmptyListsSkipValidation == [](C37_EmptyListState) /\ [][C37_EmptyListStep]_vars

\* HasAllPermissions with a user ID that does not parse and no names: (true, nil)
C37_Witness ==
    \E t \in Threads :
        /\ Done(t) /\ th[t].op = "HasAllPermissions" /\ th[t].names = <<>>
        /\ th[t].userID = Malformed
        /\ th[t].res /\ th[t].err = NoError

\* C38 -- raising the TTL revives expired entries: when SetCacheTTL sets a TTL at
\* least as large as the age of an entry that is expired but still in the map,
\* the entry is in the map as before and a lookup of its key finds it and answers
\* from it; a lookup that finds an entry no older than the TTL in force is a hit,
\* whatever the TTL was before.
C38_RaiseStep ==
    \A k \in DOMAIN cache :
        (/\ cacheTTL' # cacheTTL
         /\ now - cache[k].LoadedAt > cacheTTL
         /\ cacheTTL' >= now - cache[k].LoadedAt) =>
            /\ k \in DOMAIN cache' /\ cache'[k] = cache[k]
            /\ \A n \in PermissionNames :
                  checkCache(cache', k, n, now', cacheTTL')
                      = <<hasName(cache[k].Permissions, n), TRUE>>

C38_LookupStep ==
    \A t \in Threads :
        (/\ th[t].pc = "rlocked" /\ th'[t].pc # "rlocked"
         /\ th[t].userID \in DOMAIN cache
         /\ cacheTTL >= now - cache[th[t].userID].LoadedAt) =>
            /\ th'[t].hit /\ ~th'[t].stale
            /\ th'[t].storeCalls = th[t].storeCalls

C38_RaisedTTLRevives == [][C38_RaiseStep /\ C38_LookupStep]_vars

\* a check found the entry expired and is about to reload; the TTL has been
\* raised since, and the same entry, still in the map, is valid again
C38_Witness ==
    \E t \in Threads :
        /\ th[t].pc = "load" /\ th[t].stale
        /\ th[t].userID \in DOMAIN cache
        /\ now - cache[th[t].userID].LoadedAt > 0
        /\ cacheTTL >= now - cache[th[t].userID].LoadedAt

\* C39 -- loadedAt is the time of the write, not of the store read: a fill stamps
\* its entry with the clock of the step that writes it, however long ago the set
\* it writes was read; the read is never later than the write, and the entry of a
\* fill that has just returned counts its TTL from the write.
C39_StampState ==
    \A t \in Threads :
        /\ th[t].pc \in {"flag2", "wlock", "wlocked"} => th[t].readAt <= now
        /\ (Done(t) /\ th[t].op = "HasPermission" /\ th[t].wrote) =>
              /\ th[t].userID \in DOMAIN cache
              /\ cache[th[t].userID].LoadedAt = now
              /\ th[t].readAt <= cache[th[t].userID].LoadedAt

C39_StampStep ==
    \A t \in Threads :
        (th[t].pc = "wlocked" /\ th'[t].pc # "wlocked") =>
            /\ cache'[th[t].userID].LoadedAt = now
            /\ cache'[th[t].userID].LoadedAt >= th[t].readAt

C39_StampedAtWrite == [](C39_StampState) /\ [][C39_StampStep]_vars

\* a fill has just written a set that was read more than a TTL ago: the entry is
\* valid from now for a full TTL
C39_Witness ==
    \E t \in Threads :
        /\ Done(t) /\ th[t].op = "HasPermission" /\ th[t].wrote
        /\ cache[th[t].userID] = [Permissions |-> th[t].permissions, LoadedAt |-> now]
        /\ now - th[t].readAt > cacheTTL
        /\ cacheTTL >= 1

====
